---- MODULE Spec2Model ----
(***************************************************************************)
(* Cluster-mapping caches and the CRUD operations of the Microshare ERP    *)
(* integration API: api/devices/routes.py, api/devices/crud.py,            *)
(* api/devices/operations.py and api/devices/enhanced_cache_manager.py.    *)
(*                                                                         *)
(* Every request handler is a coroutine; it runs atomically between two    *)
(* network awaits.  One action of the model is one network response        *)
(* together with the synchronous code that follows it.                     *)
(***************************************************************************)
EXTENDS Integers, Sequences, FiniteSets, TLC

(***************************************************************************)
(* Bounds of the model.                                                    *)
(***************************************************************************)
MaxRequests == 3
MaxFaults == 1
MaxCalls == 3
MaxElapsed == 301
StartTime == 1000

(***************************************************************************)
(* Program constants.                                                      *)
(***************************************************************************)
TRAP_RECORD_TYPE == "io.microshare.trap.packed"
GATEWAY_RECORD_TYPE == "io.microshare.gateway.health.packed"
DISCOVERY_CACHE_TTL == 300
SMART_DISCOVERY_TTL == 60
SMART_DEVICE_TTL == 300
FAST_CACHE_TTL == 60
CLIENT_CACHE_TTL == 300
DEFAULT_DEVICE_ID == <<"00-00-00-00-00-00-00-00">>
test_patterns ==
    {"test-", "fake-", "erp-device-test-", "erp-device-fake-",
     "dummy-", "sample-", "placeholder-", "mock-"}

Procs == {"p1", "p2"}
SeqProcs == {"p1"}
ClusterIds == {"cT", "cG"}
\* order of the clusters in the remote store's discovery response, which is the
\* insertion order of every cluster_map dict built from it
ClusterOrder == <<"cT", "cG">>
TickSteps == {DISCOVERY_CACHE_TTL}

Nil == "<absent>"
NoEntry == [absent |-> TRUE]

RecTypeOf(c) == IF c = "cT" THEN TRAP_RECORD_TYPE ELSE GATEWAY_RECORD_TYPE
ClusterNameOf(c) == IF c = "cT" THEN "Traps" ELSE "Gateways"

Range(s) == {s[i] : i \in 1..Len(s)}
Count(x, s) == Cardinality({i \in 1..Len(s) : s[i] = x})
RemoveAt(s, i) == [j \in 1..(Len(s) - 1) |-> IF j < i THEN s[j] ELSE s[j + 1]]
\* the dict order of a cluster_map: the clusters of m in discovery order
OrderOf(m) == SelectSeq(ClusterOrder, LAMBDA c : c \in DOMAIN m)

(***************************************************************************)
(* Devices.  An identifier (id, deviceId, guid) is a sequence of text       *)
(* segments, so that the substring test of find_device_by_guid can be      *)
(* evaluated; the other fields are strings, Nil for a missing key, and the *)
(* two dates are times, 0 for a missing key.                               *)
(***************************************************************************)
Lower(seg) ==
    CASE seg = "FAKE-" -> "fake-"
      [] seg = "Test-" -> "test-"
      [] OTHER -> seg

Uuids == <<"u1", "u2", "u3", "u4", "u5", "u6">>
NewGuid(n) == <<"erp-device-", Uuids[n]>>
\* a key that the device dict does not have
Absent == <<Nil>>
Get(v, default) == IF v = Absent THEN default ELSE v

Device(id, deviceId, guid, location, placement, configuration, status, created, modified) ==
    [id |-> id, deviceId |-> deviceId, guid |-> guid, location |-> location,
     placement |-> placement, configuration |-> configuration,
     status |-> status, createdDate |-> created, lastModified |-> modified]

InitTrapDevice ==
    Device(<<"dev-1">>, Absent, <<"erp-device-", "a1">>,
           <<"Acme", "S1", "Z1", "R0", "Internal", "Bait/Lured">>,
           Nil, Nil, "active", 0, 0)
\* a device with a guid of the form the integration test gives: crud-test-<time>
InitGatewayDevice ==
    Device(<<"gw-1">>, Absent, <<"crud-test-", "b1">>,
           <<"Acme", "S1", "Z1", "GW0">>, Nil, Nil, "active", 0, 0)
\* a device that create_device_fast wrote with the default device_id
InitFastDevice(erp_reference) ==
    Device(Absent, DEFAULT_DEVICE_ID, Absent, <<"Acme", "S1", "Z1", erp_reference>>,
           "Internal", "Bait/Lured", Nil, StartTime, 0)
InitDoc(c) ==
    IF c = "cT" THEN <<InitTrapDevice, InitFastDevice("A1"), InitFastDevice("A2")>>
    ELSE <<InitGatewayDevice>>
\* the remote stores the model starts from: both categories, or traps only
StoreConfigs == {{"cT", "cG"}, {"cT"}}

(***************************************************************************)
(* Request inputs.                                                         *)
(***************************************************************************)
CreateData(device_type, erp_reference) ==
    [customer |-> "Acme", site |-> "S1", area |-> "Z1",
     erp_reference |-> erp_reference, placement |-> "Internal",
     configuration |-> "Bait/Lured", device_id |-> DEFAULT_DEVICE_ID,
     status |-> "pending", device_type |-> device_type]
\* device_type is a plain str field: any text passes the request validation
DeviceTypes == {"rodent_sensor", "gateway"}
MalformedType == "thermostat"
CreateInputs == {CreateData(ty, "R1") : ty \in DeviceTypes \cup {MalformedType}}
NoData == [none |-> TRUE]
UpdateInputs == {[erp_reference |-> "R9", placement |-> "External", status |-> "inactive"]}
NoUpdates == <<>>
FakeGuid == <<"fake-", "1">>
UnknownGuid == <<"erp-device-", "zz">>
FastIdInputs == {DEFAULT_DEVICE_ID, FakeGuid}
GuidInputs == {InitTrapDevice.guid, InitGatewayDevice.guid, NewGuid(1), FakeGuid, UnknownGuid}
HasKey(u, k) == k \in DOMAIN u

(***************************************************************************)
(* operations.py: discovery result and SimpleCache.                        *)
(***************************************************************************)
DeviceTypeOf(rec_type) ==
    IF rec_type = TRAP_RECORD_TYPE THEN "rodent_sensor"
    ELSE IF rec_type = GATEWAY_RECORD_TYPE THEN "gateway" ELSE "unknown"

ClusterInfo(c, devices) ==
    [cluster_id |-> c, cluster_name |-> ClusterNameOf(c), rec_type |-> RecTypeOf(c),
     device_type |-> DeviceTypeOf(RecTypeOf(c)), device_count |-> Len(devices)]

BuildClusterMap(objs) == [c \in DOMAIN objs |-> ClusterInfo(c, objs[c])]
EmptyMap == <<>>

SimpleCacheValid(entry, t) ==
    /\ entry # NoEntry
    /\ t - entry.timestamp < DISCOVERY_CACHE_TTL
\* SimpleCache.get deletes the entry it finds expired
SimpleCacheAfterGet(entry, t) == IF SimpleCacheValid(entry, t) THEN entry ELSE NoEntry
SimpleCacheSet(value, t) == [value |-> value, timestamp |-> t]

(***************************************************************************)
(* operations.py: get_cluster_devices, the decoration of a fetched device. *)
(***************************************************************************)
ProcessDevice(d, info) ==
    LET location == d.location
        gw == info.device_type = "gateway"
        erp_ready == IF gw THEN Len(location) >= 4 ELSE Len(location) >= 6
    IN  [id |-> Get(d.id, <<"unknown">>),
         customer |-> IF Len(location) > 0 THEN location[1] ELSE "",
         site |-> IF Len(location) > 1 THEN location[2] ELSE "",
         area |-> IF Len(location) > 2 THEN location[3] ELSE "",
         erp_reference |-> IF Len(location) > 3 THEN location[4] ELSE "",
         placement |-> IF gw THEN "Infrastructure"
                       ELSE IF Len(location) > 4 THEN location[5] ELSE "Internal",
         configuration |-> IF gw THEN "Gateway"
                           ELSE IF Len(location) > 5 THEN location[6] ELSE "Bait/Lured",
         status |-> IF d.status = Nil THEN "unknown" ELSE d.status,
         device_type |-> info.device_type,
         cluster_id |-> info.cluster_id,
         cluster_name |-> info.cluster_name,
         location_layers |-> Len(location),
         erp_ready |-> erp_ready,
         guid |-> Get(d.guid, <<>>)]

ProcessDevices(doc, info) == [i \in 1..Len(doc) |-> ProcessDevice(doc[i], info)]

(***************************************************************************)
(* client.py: OptimizedDeviceClient._parse_devices, which keeps the        *)
(* devices whose location has six fields or more.                         *)
(***************************************************************************)
ParseDevice(d) ==
    [id |-> Get(d.id, DEFAULT_DEVICE_ID),
     location |-> SubSeq(d.location, 1, 6),
     status |-> IF d.status = Nil THEN "pending" ELSE d.status,
     guid |-> d.guid]
ParseDevices(doc) ==
    LET kept == SelectSeq(doc, LAMBDA d : Len(d.location) >= 6)
    IN  [i \in 1..Len(kept) |-> ParseDevice(kept[i])]
DeviceCluster(c, doc) ==
    [id |-> c, name |-> ClusterNameOf(c), record_type |-> RecTypeOf(c),
     devices |-> ParseDevices(doc)]

(***************************************************************************)
(* Locating a device.                                                      *)
(***************************************************************************)
\* crud.py: device.get('deviceId') == device_id
DeviceIdMatches(d, device_id) == d.deviceId # Absent /\ d.deviceId = device_id
\* operations.py: cluster_device.get('guid') == guid, on the raw document
RawGuidMatches(d, guid) == d.guid # Absent /\ d.guid = guid
\* C8, mutant: the search compares the prefix of the guid only
GuidPrefixMatches(pd, guid) == pd.guid # <<>> /\ guid # <<>> /\ pd.guid[1] = guid[1]

\* operations.py search_cluster: device.get('guid') == guid, on a decorated device
ProcessedGuidMatches(pd, guid) == pd.guid = guid

FirstDeviceId(doc, device_id) ==
    IF \E i \in 1..Len(doc) : DeviceIdMatches(doc[i], device_id)
    THEN CHOOSE i \in 1..Len(doc) :
            /\ DeviceIdMatches(doc[i], device_id)
            /\ \A j \in 1..(i - 1) : ~DeviceIdMatches(doc[j], device_id)
    ELSE 0
FirstRawGuid(doc, guid) ==
    IF \E i \in 1..Len(doc) : RawGuidMatches(doc[i], guid)
    THEN CHOOSE i \in 1..Len(doc) :
            /\ RawGuidMatches(doc[i], guid)
            /\ \A j \in 1..(i - 1) : ~RawGuidMatches(doc[j], guid)
    ELSE 0

\* operations.py find_device_by_guid: any(pattern in guid_lower ...)
Contains(seg, pat) ==
    \/ seg = pat
    \/ <<seg, pat>> \in {<<"erp-device-test-", "test-">>, <<"erp-device-fake-", "fake-">>,
                        <<"crud-test-", "test-">>}
IsTestGuid(guid) ==
    \E i \in 1..Len(guid) : \E pat \in test_patterns : Contains(Lower(guid[i]), pat)

(***************************************************************************)
(* Construction and mutation of devices.                                   *)
(***************************************************************************)
\* crud.py get_target_cluster_from_cache: every type but rodent_sensor is a gateway
FastTargetRecType(device_type) ==
    IF device_type = "rodent_sensor" THEN TRAP_RECORD_TYPE ELSE GATEWAY_RECORD_TYPE
\* C14, mutant: a create for a category without a cluster takes any cluster
AnyCluster(m, rec_type) == OrderOf(m)

MatchingClusters(m, rec_type) ==
    SelectSeq(OrderOf(m), LAMBDA c : m[c].rec_type = rec_type)

\* crud.py create_device_fast, new_device
FastNewDevice(data, t) ==
    Device(Absent, data.device_id, Absent,
           <<data.customer, data.site, data.area, data.erp_reference>>,
           data.placement, data.configuration, Nil, t, 0)

\* operations.py create_device, location_array and new_device
CanonicalLocation(data) ==
    IF data.device_type = "gateway"
    THEN <<data.customer, data.site, data.area, data.erp_reference>>
    ELSE <<data.customer, data.site, data.area, data.erp_reference,
           data.placement, data.configuration>>
CanonicalRecType(data) ==
    IF data.device_type = "gateway" THEN GATEWAY_RECORD_TYPE ELSE TRAP_RECORD_TYPE
CanonicalNewDevice(data, guid) ==
    Device(data.device_id, Absent, guid, CanonicalLocation(data),
           Nil, Nil, data.status, 0, 0)

LocationKeys == <<"customer", "site", "area", "erp_reference">>
\* location[i] = ... raises IndexError on a vector that is too short
LocationRaises(d, u) ==
    \E i \in 1..4 : HasKey(u, LocationKeys[i]) /\ Len(d.location) < i
LocationUpdated(location, u) ==
    [i \in 1..Len(location) |->
        IF i <= 4 /\ HasKey(u, LocationKeys[i]) THEN u[LocationKeys[i]] ELSE location[i]]

\* crud.py update_device_fast, the mutation of the located device
FastUpdated(d, u, t) ==
    [d EXCEPT !.location = LocationUpdated(@, u),
              !.placement = IF HasKey(u, "placement") THEN u.placement ELSE @,
              !.configuration = IF HasKey(u, "configuration") THEN u.configuration ELSE @,
              !.lastModified = t]

\* operations.py update_device_by_guid, the mutation of the located device
GuidUpdated(d, u, t) ==
    LET loc1 == LocationUpdated(d.location, u)
        loc2 == IF HasKey(u, "placement") /\ Len(loc1) > 4
                THEN [loc1 EXCEPT ![5] = u.placement] ELSE loc1
        loc3 == IF HasKey(u, "configuration") /\ Len(loc2) > 5
                THEN [loc2 EXCEPT ![6] = u.configuration] ELSE loc2
    IN  [d EXCEPT !.location = loc3,
                  !.status = IF HasKey(u, "status") THEN u.status ELSE @,
                  !.lastModified = t]

\* C2, mutant: the store keeps the devices of its document that the body lacks
PutMerged(current, body) ==
    body \o SelectSeq(current, LAMBDA d : \A i \in 1..Len(body) : body[i] # d)

(***************************************************************************)
(* The remote store's PUT: the request body replaces the whole document.   *)
(***************************************************************************)
PutDocument(current, body) == body

(***************************************************************************)
(* enhanced_cache_manager.py: SmartCacheManager.                           *)
(***************************************************************************)
PutKey(f, k, v) == [x \in (DOMAIN f) \cup {k} |-> IF x = k THEN v ELSE f[x]]
DropKey(f, k) == [x \in (DOMAIN f) \ {k} |-> f[x]]

EmptySmartCache ==
    [disc_data |-> EmptyMap, disc_timestamp |-> 0,
     clusters |-> <<>>, timestamps |-> <<>>]

\* C39, mutant: the document is stored and its timestamp is not
cache_document_only(sc, cluster_id, cluster_data, t) ==
    [sc EXCEPT !.clusters = PutKey(@, cluster_id, cluster_data)]

cache_cluster_data(sc, cluster_id, cluster_data, t) ==
    [sc EXCEPT !.clusters = PutKey(@, cluster_id, cluster_data),
               !.timestamps = PutKey(@, cluster_id, t)]

\* C21, mutant: a device added for a cluster that is not cached starts its document
add_device_creating(sc, cluster_id, device_data, t) ==
    [sc EXCEPT !.clusters = PutKey(@, cluster_id,
                    IF cluster_id \in DOMAIN @ THEN Append(@[cluster_id], device_data)
                    ELSE <<device_data>>),
               !.timestamps = PutKey(@, cluster_id, t)]

add_device_to_cache(sc, cluster_id, device_data, t) ==
    IF cluster_id \in DOMAIN sc.clusters
    THEN [sc EXCEPT !.clusters[cluster_id] = Append(@, device_data),
                    !.timestamps = PutKey(@, cluster_id, t)]
    ELSE sc
add_device_result(sc, cluster_id) == cluster_id \in DOMAIN sc.clusters

\* C3, mutant: the device is removed from every cached document that holds it
remove_device_everywhere(sc, cluster_id, device_id, t) ==
    [sc EXCEPT
        !.clusters = [c \in DOMAIN sc.clusters |->
                        IF FirstDeviceId(sc.clusters[c], device_id) # 0
                        THEN RemoveAt(sc.clusters[c], FirstDeviceId(sc.clusters[c], device_id))
                        ELSE sc.clusters[c]],
        !.timestamps = [c \in DOMAIN sc.timestamps |-> t]]

\* device.update of the keys that device_data has
MergeDevice(d, device_data, t) ==
    [[k \in DOMAIN d |-> IF k \in DOMAIN device_data THEN device_data[k] ELSE d[k]]
        EXCEPT !.lastModified = t]

update_device_result(sc, cluster_id, device_id) ==
    /\ cluster_id \in DOMAIN sc.clusters
    /\ FirstDeviceId(sc.clusters[cluster_id], device_id) # 0
update_device_in_cache(sc, cluster_id, device_id, device_data, t) ==
    IF update_device_result(sc, cluster_id, device_id)
    THEN LET i == FirstDeviceId(sc.clusters[cluster_id], device_id)
         IN  [sc EXCEPT !.clusters[cluster_id][i] = MergeDevice(@, device_data, t),
                        !.timestamps = PutKey(@, cluster_id, t)]
    ELSE sc

remove_device_result(sc, cluster_id, device_id) ==
    /\ cluster_id \in DOMAIN sc.clusters
    /\ FirstDeviceId(sc.clusters[cluster_id], device_id) # 0
remove_device_from_cache(sc, cluster_id, device_id, t) ==
    IF remove_device_result(sc, cluster_id, device_id)
    THEN LET i == FirstDeviceId(sc.clusters[cluster_id], device_id)
         IN  [sc EXCEPT !.clusters[cluster_id] = RemoveAt(@, i),
                        !.timestamps = PutKey(@, cluster_id, t)]
    ELSE sc

\* C25, mutant: the invalidation of one cluster resets the discovery mapping too
invalidate_with_discovery(sc, cluster_id) ==
    [sc EXCEPT !.clusters = DropKey(@, cluster_id),
               !.timestamps = DropKey(@, cluster_id),
               !.disc_data = EmptyMap, !.disc_timestamp = 0]
invalidate_cluster_cache(sc, cluster_id) ==
    [sc EXCEPT !.clusters = DropKey(@, cluster_id),
               !.timestamps = DropKey(@, cluster_id)]

\* C26, mutant: the documents are wiped and the discovery mapping is kept
clear_documents_only(sc) == [sc EXCEPT !.clusters = <<>>, !.timestamps = <<>>]
clear_all_cache(sc) == EmptySmartCache

update_discovery_cache(sc, cluster_map, t) ==
    [sc EXCEPT !.disc_data = cluster_map, !.disc_timestamp = t]

is_discovery_cache_valid(sc, t) ==
    /\ sc.disc_data # EmptyMap
    /\ t - sc.disc_timestamp < SMART_DISCOVERY_TTL

\* the figures of get_cache_status
get_cache_status(sc, t) ==
    [discovery_cache |->
        [valid |-> t - sc.disc_timestamp < SMART_DISCOVERY_TTL,
         age_seconds |-> t - sc.disc_timestamp,
         cluster_count |-> Cardinality(DOMAIN sc.disc_data)],
     device_cache |->
        [cached_clusters |-> Cardinality(DOMAIN sc.clusters),
         cluster_details |->
            [c \in DOMAIN sc.timestamps |->
                [age_seconds |-> t - sc.timestamps[c],
                 valid |-> t - sc.timestamps[c] < SMART_DEVICE_TTL,
                 device_count |-> IF c \in DOMAIN sc.clusters
                                  THEN Len(sc.clusters[c]) ELSE 0]]]]

\* the cluster a lookup by category returns, Nil for None
ClusterFound(cs) == IF cs = <<>> THEN Nil ELSE cs[1]
SmartKnownTypes == {"rodent_sensor", "gateway"}
\* C20, mutant: the lookup by category serves an expired mapping
get_cluster_ignoring_ttl(sc, device_type, t) ==
    IF device_type \notin SmartKnownTypes THEN Nil
    ELSE ClusterFound(MatchingClusters(sc.disc_data, FastTargetRecType(device_type)))
get_cluster_for_device_type(sc, device_type, t) ==
    IF ~is_discovery_cache_valid(sc, t) THEN Nil
    ELSE IF device_type \notin SmartKnownTypes THEN Nil
    ELSE ClusterFound(MatchingClusters(sc.disc_data, FastTargetRecType(device_type)))

\* the cached document is returned, None is not: a hit
get_cached_cluster_data(sc, cluster_id, t) ==
    /\ cluster_id \in DOMAIN sc.clusters
    /\ t - (IF cluster_id \in DOMAIN sc.timestamps THEN sc.timestamps[cluster_id] ELSE 0)
            < SMART_DEVICE_TTL

(***************************************************************************)
(* src/microshare_client/cache.py: CacheEntry and SimpleCache.             *)
(***************************************************************************)
AllClustersKey == "clusters:scope:all"
CacheEntry(data, timestamp, ttl) == [data |-> data, timestamp |-> timestamp, ttl |-> ttl]
is_expired(entry, t) == t - entry.timestamp > entry.ttl
ClusterCacheHit(cc, key, t) == key \in DOMAIN cc /\ ~is_expired(cc[key], t)
\* SimpleCache.get deletes the entry it finds expired
ClusterCacheAfterGet(cc, key, t) ==
    IF key \in DOMAIN cc /\ is_expired(cc[key], t) THEN DropKey(cc, key) ELSE cc
ClusterCacheSet(cc, key, value, ttl, t) == PutKey(cc, key, CacheEntry(value, t, ttl))
ClusterCacheClear(cc) == <<>>
\* SimpleCache.cleanup_expired: the entries it keeps and the number it returns
cleanup_expired(cc, t) == [k \in {x \in DOMAIN cc : ~is_expired(cc[x], t)} |-> cc[k]]
expired_count(cc, t) == Cardinality({x \in DOMAIN cc : is_expired(cc[x], t)})

(***************************************************************************)
(* src/microshare_client/client.py and the routes of the integration API:  *)
(* the device dicts they build and the searches they run.                  *)
(***************************************************************************)
ClientDeviceId == <<"TEST-CRUD-DEVICE-001">>
\* DeviceCreateModel.dict(): id, meta.location, status, guid
ClientNewDevice(id) ==
    Device(id, Absent, <<"crud-test-", "1">>,
           <<"Acme", "S1", "Z1", "R7", "Internal", "Poison">>, Nil, Nil, "pending", 0, 0)
\* DeviceUpdateModel with the None fields dropped
ClientUpdateInputs ==
    {[location |-> <<"Acme U", "S1 U", "Z1 U", "R7 U", "External", "Bait/Lured">>,
      status |-> "active"]}
ClientIdInputs == {ClientDeviceId, InitTrapDevice.id}

\* device.get('id') == device_id
ClientIdMatches(d, device_id) == d.id # Absent /\ d.id = device_id
FirstClientId(doc, device_id) ==
    IF \E i \in 1..Len(doc) : ClientIdMatches(doc[i], device_id)
    THEN CHOOSE i \in 1..Len(doc) :
            /\ ClientIdMatches(doc[i], device_id)
            /\ \A j \in 1..(i - 1) : ~ClientIdMatches(doc[j], device_id)
    ELSE 0
\* update_device_in_cluster: the loop over updates.items()
ClientUpdated(d, updates) ==
    [d EXCEPT !.location = IF HasKey(updates, "location") THEN updates.location ELSE @,
              !.status = IF HasKey(updates, "status") THEN updates.status ELSE @]
\* remove_device_from_cluster: [d for d in devices if d.get('id') != device_id]
ClientRemoved(doc, device_id) == SelectSeq(doc, LAMBDA d : ~ClientIdMatches(d, device_id))

\* location[i] if len(location) > i else None, for the 0-based position i
At(location, i) == IF Len(location) > i THEN location[i + 1] ELSE Nil
\* find_device_by_id: the dict returned for a device found in cluster c; the
\* device's own keys (id, guid, status, meta) and the keys the route adds
FoundDevice(d, c) ==
    [id |-> d.id, guid |-> d.guid, status |-> d.status,
     meta |-> [location |-> d.location],
     cluster_id |-> c, cluster_name |-> ClusterNameOf(c), device_type |-> RecTypeOf(c),
     customer |-> At(d.location, 0), site |-> At(d.location, 1),
     area |-> At(d.location, 2), erp_reference |-> At(d.location, 3),
     found_in_cluster |-> TRUE, cached_response |-> TRUE]
\* the first cluster of the listing, in its order, that holds the device
FindCluster(clusters, device_id) ==
    ClusterFound(SelectSeq(OrderOf(clusters),
                           LAMBDA c : FirstClientId(clusters[c], device_id) # 0))
\* response.get(key) on the JSON of a response
JsonGet(r, key) == IF key \in DOMAIN r THEN r[key] ELSE Nil

\* device_id=None and device_data=None, the defaults of update_after_operation
NoId == <<>>
\* the branch of update_after_operation that a call takes
SurgicalBranch(operation_type, device_id, device_data) ==
    IF operation_type = "CREATE" /\ device_data # NoData THEN "ADD"
    ELSE IF operation_type = "UPDATE" /\ device_id # NoId /\ device_data # NoData
    THEN "UPDATE"
    ELSE IF operation_type = "DELETE" /\ device_id # NoId THEN "DELETE"
    ELSE "CLUSTER_INVALIDATION"
update_after_result(sc, operation_type, cluster_id, device_id, device_data) ==
    LET b == SurgicalBranch(operation_type, device_id, device_data)
    IN  CASE b = "ADD" -> add_device_result(sc, cluster_id)
          [] b = "UPDATE" -> update_device_result(sc, cluster_id, device_id)
          [] b = "DELETE" -> remove_device_result(sc, cluster_id, device_id)
          [] OTHER -> TRUE
\* C24, mutant: a surgical operation that fails drops the document as well
invalidate_on_failure(sc, operation_type, cluster_id, device_id, device_data, t) ==
    IF update_after_result(sc, operation_type, cluster_id, device_id, device_data)
            /\ SurgicalBranch(operation_type, device_id, device_data)
                    # "CLUSTER_INVALIDATION"
    THEN CASE operation_type = "CREATE" -> add_device_to_cache(sc, cluster_id, device_data, t)
           [] operation_type = "UPDATE" ->
                update_device_in_cache(sc, cluster_id, device_id, device_data, t)
           [] OTHER -> remove_device_from_cache(sc, cluster_id, device_id, t)
    ELSE invalidate_cluster_cache(sc, cluster_id)
update_after_operation(sc, operation_type, cluster_id, device_id, device_data, t) ==
    IF operation_type = "CREATE" /\ device_data # NoData
    THEN add_device_to_cache(sc, cluster_id, device_data, t)
    ELSE IF operation_type = "UPDATE" /\ device_id # NoId /\ device_data # NoData
    THEN update_device_in_cache(sc, cluster_id, device_id, device_data, t)
    ELSE IF operation_type = "DELETE" /\ device_id # NoId
    THEN remove_device_from_cache(sc, cluster_id, device_id, t)
    ELSE invalidate_cluster_cache(sc, cluster_id)

VARIABLES
    remote,            \* remote store: cluster id -> device list of the cluster document
    fast_cache,        \* heap of FastCRUDManager._cluster_cache dicts; the last is bound
    discovery_cache,   \* operations.discovery_cache (SimpleCache), the one key in use
    smart_cache,       \* enhanced_cache_manager.smart_cache
    now,               \* time.time()
    st,                \* per request handler: its position and locals
    nextUuid,          \* uuid.uuid4(): index of the next fresh value
    nRequests,         \* number of requests accepted so far (bounded)
    nFaults,           \* number of failed remote calls so far (bounded)
    lastPut,           \* per cluster: the handler whose PUT the store applied last
    call,              \* the cache method called last and what it returned (cache harness)
    device_client,     \* api/devices/client.py: device_client._cluster_cache
    cluster_cache,     \* src/microshare_client/cache.py: cluster_cache._cache
    client_instance    \* services/integration-api/dependencies.py: _client_instance and
                       \* the MicroshareDeviceClient objects it was bound to

\* dependencies.py: _client_instance is None (ref 0) or bound to an object of the heap
NoClientInstance == [ref |-> 0, heap |-> <<>>]
\* MicroshareDeviceClient(...) followed by __aenter__: no token, an open session
NewClient == [token |-> FALSE, session |-> "open"]

vars == <<remote, fast_cache, discovery_cache, smart_cache, now, st, nextUuid,
          nRequests, nFaults, lastPut, call, device_client, cluster_cache, client_instance>>

(***************************************************************************)
(* Request handlers.                                                       *)
(***************************************************************************)
\* what a harness call returned: ok is FALSE for None, False or a raised exception
NoOut == [ok |-> FALSE, val |-> "<absent>"]
Out(ok, val) == [ok |-> ok, val |-> val]

NoRes == [ok |-> FALSE, http |-> 0, err |-> "none", mgr_ok |-> FALSE, devices |-> <<>>]
Res(ok, http, err, mgr_ok) ==
    [ok |-> ok, http |-> http, err |-> err, mgr_ok |-> mgr_ok, devices |-> <<>>]
NoPrev == [kind |-> "none", id |-> NoId, put |-> "none", ok |-> FALSE, dev |-> NoData]

Idle ==
    [pc |-> "idle", kind |-> "none", id |-> NoId, data |-> NoData, updates |-> NoUpdates,
     cache |-> 0, t0 |-> 0, cmap |-> EmptyMap, todo |-> <<>>, pend |-> {}, got |-> <<>>,
     target |-> Nil, base |-> <<>>, doc |-> <<>>, dev |-> NoData, res |-> NoRes,
     put |-> "none", nDisc |-> 0, nFetch |-> 0, touched |-> {}, prev |-> NoPrev,
     client |-> 0]

FastKinds == {"list", "create", "update", "delete"}
GuidKinds == {"gcreate", "gupdate", "gdelete"}
Free(p) == st[p].pc \in {"idle", "done"}

\* what a request remembers of the request served before it
Remembered(loc) ==
    IF loc.kind \in {"create", "gcreate"} /\ loc.put = "ok"
    THEN [NoPrev EXCEPT !.kind = loc.kind, !.put = "ok", !.ok = loc.res.ok, !.dev = loc.dev]
    ELSE IF loc.kind \in {"delete", "gdelete"}
    THEN [NoPrev EXCEPT !.kind = loc.kind, !.id = loc.id, !.put = loc.put, !.ok = loc.res.ok]
    ELSE IF loc.kind = "clear" THEN [NoPrev EXCEPT !.kind = "clear", !.ok = TRUE]
    ELSE IF loc.kind \in {"cadd", "cupdate", "cremove"}
    THEN [NoPrev EXCEPT !.kind = loc.kind, !.id = loc.id, !.put = loc.put,
                        !.ok = loc.res.ok, !.dev = loc.updates]
    ELSE NoPrev

\* the locals of a handler that has just been entered
Enter(p, kind, id, data, updates) ==
    [Idle EXCEPT !.kind = kind, !.id = id, !.data = data, !.updates = updates,
                 !.t0 = now,
                 !.prev = Remembered(st[p])]

\* a handler that returned: its result, and what the model remembers of the call
Done(loc, res) ==
    [loc EXCEPT !.pc = "done", !.res = res,
                !.updates = IF loc.kind = "cupdate" THEN @ ELSE NoUpdates,
                !.data = IF loc.kind \in {"create", "gcreate"} THEN @ ELSE NoData,
                !.cache = 0, !.t0 = 0, !.cmap = EmptyMap, !.todo = <<>>, !.pend = {},
                !.got = <<>>, !.base = <<>>, !.doc = <<>>]

\* the FastCRUDManager._cluster_cache dict that the class attribute is bound to
Bound == Len(fast_cache)
EmptyFastCache == [data |-> EmptyMap, timestamp |-> 0]

Init ==
    /\ \E cfg \in StoreConfigs : remote = [c \in cfg |-> InitDoc(c)]
    /\ fast_cache = <<EmptyFastCache>>
    /\ discovery_cache = NoEntry
    /\ smart_cache = EmptySmartCache
    /\ now = StartTime
    /\ st = [p \in Procs |-> Idle]
    /\ nextUuid = 1
    /\ nRequests = 0
    /\ nFaults = 0
    /\ lastPut = [c \in ClusterIds |-> Nil]
    /\ call = [op |-> "none", cluster_id |-> Nil, arg |-> Nil, n |-> 0, out |-> NoOut]
    /\ device_client = <<>>
    /\ cluster_cache = <<>>
    /\ client_instance = NoClientInstance

(***************************************************************************)
(* The outcome of a handler that found no device, no cluster or no store.  *)
(***************************************************************************)
\* routes.py: the response for a FastCRUDManager result with success False;
\* an HTTPException raised inside the handler's try is caught by its
\* "except Exception" and re-raised with status 500
FastFailure(kind, err) ==
    IF kind = "list" THEN Res(FALSE, 200, err, FALSE)
    ELSE IF kind = "delete" /\ err = "NotFound" THEN Res(TRUE, 200, err, FALSE)
    ELSE Res(FALSE, 500, err, FALSE)
Failure(kind, err) ==
    IF kind \in FastKinds THEN FastFailure(kind, err) ELSE Res(FALSE, 0, err, FALSE)

\* the error of an operation whose discovery failed
DiscoveryError(kind) == IF kind = "create" THEN "ClusterNotFound" ELSE "Discovery"

(***************************************************************************)
(* What a handler does once it holds a cluster mapping m.                  *)
(***************************************************************************)
Continue(loc, m) ==
    CASE loc.kind \in {"list", "update", "delete"} ->
            IF OrderOf(m) = <<>>
            THEN Done(loc, IF loc.kind = "list" THEN Res(TRUE, 200, "none", TRUE)
                           ELSE Failure(loc.kind, "NotFound"))
            ELSE [loc EXCEPT !.pc = "fetch", !.cmap = m, !.todo = OrderOf(m)]
      [] loc.kind \in {"create", "gcreate"} ->
            LET rec_type == IF loc.kind = "create"
                            THEN FastTargetRecType(loc.data.device_type)
                            ELSE CanonicalRecType(loc.data)
                cs == MatchingClusters(m, rec_type)
            IN  IF cs = <<>>
                THEN Done(loc, Failure(loc.kind, "ClusterNotFound"))
                ELSE [loc EXCEPT !.pc = "fetch", !.cmap = m, !.todo = <<cs[1]>>,
                                 !.target = cs[1]]
      [] OTHER ->
            IF DOMAIN m = {}
            THEN Done(loc, Failure(loc.kind, "NotFound"))
            ELSE [loc EXCEPT !.pc = "gather", !.cmap = m, !.pend = DOMAIN m]

\* crud.py: "if cache['data']", and for create a cluster of the wanted type in it
CacheUsable(kind, data, m) ==
    IF kind = "create"
    THEN m # EmptyMap /\ MatchingClusters(m, FastTargetRecType(data.device_type)) # <<>>
    ELSE m # EmptyMap

(***************************************************************************)
(* routes.py and crud.py: a request enters list, create, update or delete. *)
(* The handler runs up to its first network await: the cluster fetch when  *)
(* a mapping is at hand, the bulk discovery request otherwise.             *)
(***************************************************************************)
StartFast(p, kind, id, data, updates) ==
    /\ Free(p)
    /\ nRequests < MaxRequests
    /\ nRequests' = nRequests + 1
    /\ LET loc0 == [Enter(p, kind, id, data, updates) EXCEPT !.cache = Bound]
           m0 == fast_cache[Bound].data
       IN  IF CacheUsable(kind, data, m0)
           THEN /\ st' = [st EXCEPT ![p] = Continue(loc0, m0)]
                /\ UNCHANGED <<fast_cache, discovery_cache>>
           ELSE IF SimpleCacheValid(discovery_cache, now)
           THEN /\ fast_cache' = [fast_cache EXCEPT ![Bound] =
                                    [data |-> discovery_cache.value, timestamp |-> now]]
                /\ st' = [st EXCEPT ![p] =
                            Continue([loc0 EXCEPT !.touched = {"mapping"}],
                                     discovery_cache.value)]
                /\ UNCHANGED discovery_cache
           ELSE /\ discovery_cache' = SimpleCacheAfterGet(discovery_cache, now)
                /\ st' = [st EXCEPT ![p] =
                            [loc0 EXCEPT !.pc = "disc", !.nDisc = 1,
                                         !.touched = IF discovery_cache # NoEntry
                                                     THEN {"discovery"} ELSE {}]]
                /\ UNCHANGED fast_cache
    /\ UNCHANGED <<remote, smart_cache, now, nextUuid, nFaults, lastPut, call,
                   device_client, cluster_cache, client_instance>>

ListDevices(p) == StartFast(p, "list", NoId, NoData, NoUpdates)

CreateDevice(p) == \E data \in CreateInputs : StartFast(p, "create", NoId, data, NoUpdates)

UpdateDevice(p) ==
    \E id \in FastIdInputs, u \in UpdateInputs : StartFast(p, "update", id, NoData, u)

DeleteDevice(p) == \E id \in FastIdInputs : StartFast(p, "delete", id, NoData, NoUpdates)

(***************************************************************************)
(* operations.py: create_device, update_device_by_guid and                 *)
(* delete_device_by_guid enter; the last two through find_device_by_guid.  *)
(***************************************************************************)
StartGuid(p, kind, id, data, updates) ==
    /\ Free(p)
    /\ nRequests < MaxRequests
    /\ nRequests' = nRequests + 1
    /\ LET loc0 == Enter(p, kind, id, data, updates)
       IN  IF kind # "gcreate" /\ IsTestGuid(id)
           THEN /\ st' = [st EXCEPT ![p] = Done(loc0, Failure(kind, "NotFound"))]
                /\ UNCHANGED discovery_cache
           ELSE IF SimpleCacheValid(discovery_cache, now)
           THEN /\ st' = [st EXCEPT ![p] = Continue(loc0, discovery_cache.value)]
                /\ UNCHANGED discovery_cache
           ELSE /\ discovery_cache' = SimpleCacheAfterGet(discovery_cache, now)
                /\ st' = [st EXCEPT ![p] =
                            [loc0 EXCEPT !.pc = "disc", !.nDisc = 1,
                                         !.touched = IF discovery_cache # NoEntry
                                                     THEN {"discovery"} ELSE {}]]
    /\ UNCHANGED <<remote, fast_cache, smart_cache, now, nextUuid, nFaults, lastPut, call,
                   device_client, cluster_cache, client_instance>>

CreateByManager(p) ==
    \E data \in CreateInputs : StartGuid(p, "gcreate", NoId, data, NoUpdates)

UpdateByGuid(p) ==
    \E id \in GuidInputs, u \in UpdateInputs : StartGuid(p, "gupdate", id, NoData, u)

DeleteByGuid(p) == \E id \in GuidInputs : StartGuid(p, "gdelete", id, NoData, NoUpdates)

(***************************************************************************)
(* operations.py wildcard_discovery_with_cache: the response of the bulk   *)
(* discovery request, and what the caller does with the result.            *)
(***************************************************************************)
\* a remote call answers; the number of calls that fail is bounded
Outcome(ok) ==
    /\ ok \/ nFaults < MaxFaults
    /\ nFaults' = IF ok THEN nFaults ELSE nFaults + 1

\* C16, mutant: a failed discovery stores an empty mapping
DiscoveryCachedAlways(dc, ok, m, t) == SimpleCacheSet(IF ok THEN m ELSE EmptyMap, t)

\* discovery_cache.set(cache_key, result) inside "if response.status_code == 200"
DiscoveryCacheAfterResponse(dc, ok, m, t) == IF ok THEN SimpleCacheSet(m, t) ELSE dc

DiscoveryResponse(p) ==
    /\ st[p].pc = "disc"
    /\ \E ok \in BOOLEAN :
        /\ Outcome(ok)
        /\ LET loc == st[p]
               fast == loc.kind \in FastKinds
               m == BuildClusterMap(remote)
               loc1 == [loc EXCEPT !.touched = @ \cup {"discovery"}
                                       \cup (IF fast THEN {"mapping"} ELSE {})]
           IN  IF ok
               THEN /\ discovery_cache' =
                            DiscoveryCacheAfterResponse(discovery_cache, ok, m, now)
                    /\ fast_cache' = IF fast
                           THEN [fast_cache EXCEPT ![loc.cache] =
                                   [data |-> m, timestamp |-> loc.t0]]
                           ELSE fast_cache
                    /\ st' = [st EXCEPT ![p] = Continue(loc1, m)]
               ELSE /\ st' = [st EXCEPT ![p] =
                                Done(loc, Failure(loc.kind, DiscoveryError(loc.kind)))]
                    /\ discovery_cache' =
                            DiscoveryCacheAfterResponse(discovery_cache, ok, m, now)
                    /\ UNCHANGED fast_cache
    /\ UNCHANGED <<remote, smart_cache, now, nextUuid, nRequests, lastPut, call,
                   device_client, cluster_cache, client_instance>>

(***************************************************************************)
(* The response of one cluster fetch (direct_cluster_get in crud.py,       *)
(* get_cluster_devices in operations.py) of a handler that visits its      *)
(* clusters one after the other.  raw is the device list of the fetched    *)
(* document; a fetch that failed has ok = FALSE.                           *)
(***************************************************************************)
\* routes.py optimized_get_devices: the loop over the clusters of the mapping
ListStep(loc, c, ok, raw) ==
    LET rest == Tail(loc.todo)
        found == IF ok THEN loc.res.devices \o ProcessDevices(raw, loc.cmap[c])
                 ELSE loc.res.devices
    IN  IF rest = <<>>
        THEN Done(loc, [Res(TRUE, 200, "none", TRUE) EXCEPT !.devices = found])
        ELSE [loc EXCEPT !.todo = rest, !.res.devices = found]

\* crud.py create_device_fast, steps 2 and 3
CreateStep(loc, c, ok, raw, t) ==
    IF ok
    THEN LET new_device == FastNewDevice(loc.data, t)
         IN  [loc EXCEPT !.pc = "put", !.todo = <<>>, !.base = raw,
                         !.dev = new_device, !.doc = Append(raw, new_device)]
    ELSE Done(loc, Failure("create", "FetchFailed"))

\* operations.py create_device, from get_cluster_devices to the append
ManagerCreateStep(loc, c, ok, raw, guid) ==
    IF ok
    THEN LET new_device == CanonicalNewDevice(loc.data, guid)
         IN  [loc EXCEPT !.pc = "put", !.todo = <<>>, !.base = raw,
                         !.dev = new_device, !.doc = Append(raw, new_device)]
    ELSE Done(loc, Failure("gcreate", "FetchFailed"))

\* crud.py update_device_fast: the search loop and the mutation of the match
UpdateStep(loc, c, ok, raw, t) ==
    LET rest == Tail(loc.todo)
        i == IF ok THEN FirstDeviceId(raw, loc.id) ELSE 0
    IN  IF i # 0
        THEN IF LocationRaises(raw[i], loc.updates)
             THEN Done(loc, Failure("update", "Exception"))
             ELSE LET device == FastUpdated(raw[i], loc.updates, t)
                  IN  [loc EXCEPT !.pc = "put", !.todo = <<>>, !.target = c,
                                  !.base = raw, !.dev = device,
                                  !.doc = [raw EXCEPT ![i] = device]]
        ELSE IF rest = <<>>
        THEN Done(loc, Failure("update", "NotFound"))
        ELSE [loc EXCEPT !.todo = rest]

\* crud.py delete_device_fast: the search loop and devices.pop(i)
DeleteStep(loc, c, ok, raw) ==
    LET rest == Tail(loc.todo)
        i == IF ok THEN FirstDeviceId(raw, loc.id) ELSE 0
    IN  IF i # 0
        THEN [loc EXCEPT !.pc = "put", !.todo = <<>>, !.target = c,
                         !.base = raw, !.dev = raw[i], !.doc = RemoveAt(raw, i)]
        ELSE IF rest = <<>>
        THEN Done(loc, Failure("delete", "NotFound"))
        ELSE [loc EXCEPT !.todo = rest]

FetchResponse(p) ==
    /\ st[p].pc = "fetch"
    /\ \E ok \in BOOLEAN :
        /\ Outcome(ok)
        /\ LET loc == [st[p] EXCEPT !.nFetch = @ + 1]
               c == Head(loc.todo)
               raw == remote[c]
           IN  /\ st' = [st EXCEPT ![p] =
                   CASE loc.kind = "list" -> ListStep(loc, c, ok, raw)
                     [] loc.kind = "create" -> CreateStep(loc, c, ok, raw, now)
                     [] loc.kind = "update" -> UpdateStep(loc, c, ok, raw, now)
                     [] loc.kind = "delete" -> DeleteStep(loc, c, ok, raw)
                     [] OTHER -> ManagerCreateStep(loc, c, ok, raw, NewGuid(nextUuid))]
               /\ nextUuid' = IF loc.kind = "gcreate" /\ ok THEN nextUuid + 1 ELSE nextUuid
    /\ UNCHANGED <<remote, fast_cache, discovery_cache, smart_cache, now, nRequests,
                   lastPut, call,
                   device_client, cluster_cache, client_instance>>

(***************************************************************************)
(* operations.py find_device_by_guid: the parallel search.  Each response  *)
(* settles one search_cluster task; when the last one has settled the      *)
(* caller takes the first hit in task order and mutates its raw document.  *)
(***************************************************************************)
\* C17, mutant: the document of a failed fetch is searched like any other
SearchClusterAnyway(ok, raw, info, guid) ==
    IF \E i \in 1..Len(raw) : ProcessedGuidMatches(ProcessDevice(raw[i], info), guid)
    THEN [found |-> TRUE, raw |-> raw]
    ELSE [found |-> FALSE, raw |-> <<>>]

\* C37, mutant: the search compares the device's id with the guid
SearchClusterById(ok, raw, info, guid) ==
    IF ok /\ \E i \in 1..Len(raw) : ProcessDevice(raw[i], info).id = guid
    THEN [found |-> TRUE, raw |-> raw]
    ELSE [found |-> FALSE, raw |-> <<>>]

SearchCluster(ok, raw, info, guid) ==
    IF ok /\ \E i \in 1..Len(raw) : ProcessedGuidMatches(ProcessDevice(raw[i], info), guid)
    THEN [found |-> TRUE, raw |-> raw]
    ELSE [found |-> FALSE, raw |-> <<>>]

\* update_device_by_guid / delete_device_by_guid after find_device_by_guid returned
Conclude(loc, t) ==
    LET hits == SelectSeq(OrderOf(loc.cmap),
                          LAMBDA c : c \in DOMAIN loc.got /\ loc.got[c].found)
    IN  IF hits = <<>>
        THEN Done(loc, Failure(loc.kind, "NotFound"))
        ELSE LET c == hits[1]
                 raw == loc.got[c].raw
                 i == FirstRawGuid(raw, loc.id)
             IN  IF i = 0
                 THEN Done(loc, Failure(loc.kind, "LocateFailed"))
                 ELSE IF loc.kind = "gdelete"
                 THEN [loc EXCEPT !.pc = "put", !.target = c, !.base = raw,
                                  !.dev = raw[i], !.doc = RemoveAt(raw, i)]
                 ELSE IF LocationRaises(raw[i], loc.updates)
                 THEN Done(loc, Failure(loc.kind, "Exception"))
                 ELSE LET device == GuidUpdated(raw[i], loc.updates, t)
                      IN  [loc EXCEPT !.pc = "put", !.target = c, !.base = raw,
                                      !.dev = device, !.doc = [raw EXCEPT ![i] = device]]

\* C18, mutant: the caller goes on as soon as one search task has settled
GatheredFirst(loc) == TRUE

\* await asyncio.gather(*search_tasks): every search task has settled
Gathered(loc) == loc.pend = {}

SearchResponse(p) ==
    /\ st[p].pc = "gather"
    /\ \E c \in st[p].pend, ok \in BOOLEAN :
        /\ Outcome(ok)
        /\ LET loc == [st[p] EXCEPT !.nFetch = @ + 1,
                                    !.pend = @ \ {c},
                                    !.got = PutKey(@, c,
                                        SearchCluster(ok, remote[c], st[p].cmap[c], st[p].id))]
           IN  st' = [st EXCEPT ![p] = IF Gathered(loc) THEN Conclude(loc, now) ELSE loc]
    /\ UNCHANGED <<remote, fast_cache, discovery_cache, smart_cache, now, nextUuid,
                   nRequests, lastPut, call,
                   device_client, cluster_cache, client_instance>>

\* C1, mutant: the surgical update is applied whatever the outcome of the write
SmartCacheUpdatedAlways(sc, kind, write_ok, cluster_id, device_id, device, t) ==
    IF kind = "create"
    THEN update_after_operation(sc, "CREATE", cluster_id, NoId, device, t)
    ELSE IF kind = "delete"
    THEN update_after_operation(sc, "DELETE", cluster_id, device_id, NoData, t)
    ELSE sc

(***************************************************************************)
(* The response of the whole-document PUT and the code that follows it.    *)
(***************************************************************************)
\* routes.py: update_cache_after_create / update_cache_after_delete run only in
\* the "if result['success']" branch; update_cache_after_update is called with
\* two of its three arguments and raises before it reaches the cache
SmartCacheAfterWrite(sc, kind, write_ok, cluster_id, device_id, device, t) ==
    IF ~write_ok THEN sc
    ELSE IF kind = "create"
    THEN update_after_operation(sc, "CREATE", cluster_id, NoId, device, t)
    ELSE IF kind = "delete"
    THEN update_after_operation(sc, "DELETE", cluster_id, device_id, NoData, t)
    ELSE sc

\* operations.py: discovery_cache.clear() inside "if response.status_code in [200, 201]"
DiscoveryCacheAfterWrite(dc, kind, write_ok) ==
    IF write_ok /\ kind \in GuidKinds THEN NoEntry ELSE dc

WriteResult(kind, write_ok) ==
    IF ~write_ok THEN Failure(kind, "WriteRejected")
    ELSE IF kind = "update" THEN Res(FALSE, 500, "TypeError", TRUE)
    ELSE IF kind \in FastKinds THEN Res(TRUE, 200, "none", TRUE)
    ELSE Res(TRUE, 0, "none", TRUE)

PutResponse(p) ==
    /\ st[p].pc = "put"
    /\ \E write_ok \in BOOLEAN :
        /\ Outcome(write_ok)
        /\ LET loc == st[p]
               c == loc.target
           IN
            /\ remote' = IF write_ok
                         THEN [remote EXCEPT ![c] = PutDocument(@, loc.doc)]
                         ELSE remote
            /\ lastPut' = IF write_ok THEN [lastPut EXCEPT ![c] = p] ELSE lastPut
            /\ smart_cache' = SmartCacheAfterWrite(smart_cache, loc.kind, write_ok,
                                                   c, loc.id, loc.dev, now)
            /\ discovery_cache' = DiscoveryCacheAfterWrite(discovery_cache, loc.kind, write_ok)
            /\ st' = [st EXCEPT ![p] =
                        Done([loc EXCEPT
                                !.put = IF write_ok THEN "ok" ELSE "rejected",
                                !.touched = @ \cup
                                    (IF smart_cache' # smart_cache THEN {"documents"} ELSE {})
                                    \cup (IF discovery_cache' # discovery_cache
                                          THEN {"discovery"} ELSE {})],
                             WriteResult(loc.kind, write_ok))]
    /\ UNCHANGED <<fast_cache, now, nextUuid, nRequests, call,
                   device_client, cluster_cache, client_instance>>

(***************************************************************************)
(* routes.py force_cache_clear: smart_cache.clear_all_cache() and          *)
(* FastCRUDManager.clear_cluster_cache(), which binds the class attribute  *)
(* to a new dict; handlers in flight keep the dict they read at entry.     *)
(***************************************************************************)
clear_cluster_cache(heap) == Append(heap, EmptyFastCache)

ClearCache(p) ==
    /\ Free(p)
    /\ nRequests < MaxRequests
    /\ nRequests' = nRequests + 1
    /\ smart_cache' = clear_all_cache(smart_cache)
    /\ fast_cache' = clear_cluster_cache(fast_cache)
    /\ st' = [st EXCEPT ![p] =
                Done(Enter(p, "clear", NoId, NoData, NoUpdates), Res(TRUE, 200, "none", TRUE))]
    /\ UNCHANGED <<remote, discovery_cache, now, nextUuid, nFaults, lastPut, call,
                   device_client, cluster_cache, client_instance>>

(***************************************************************************)
(* enhanced_cache_manager.py cache_cluster_data: a caller that has fetched *)
(* the document of a cluster stores it for surgical updates.  No route of  *)
(* routes.py makes this call; it is the only way a document gets cached.   *)
(***************************************************************************)
StoreDocument(p) ==
    /\ Free(p)
    /\ nRequests < MaxRequests
    /\ nRequests' = nRequests + 1
    /\ \E c \in DOMAIN remote :
        smart_cache' = cache_cluster_data(smart_cache, c, remote[c], now)
    /\ st' = [st EXCEPT ![p] =
                Done(Enter(p, "store", NoId, NoData, NoUpdates), Res(TRUE, 0, "none", TRUE))]
    /\ UNCHANGED <<remote, fast_cache, discovery_cache, now, nextUuid, nFaults, lastPut, call,
                   device_client, cluster_cache, client_instance>>

(***************************************************************************)
(* time.time() advances.                                                   *)
(***************************************************************************)
Tick ==
    /\ \E d \in TickSteps :
        /\ now + d <= StartTime + MaxElapsed
        /\ now' = now + d
    /\ UNCHANGED <<remote, fast_cache, discovery_cache, smart_cache, st, nextUuid,
                   nRequests, nFaults, lastPut, call,
                   device_client, cluster_cache, client_instance>>

\* a handler takes a request: its first step
Accept(p) ==
    \/ ListDevices(p)
    \/ CreateDevice(p)
    \/ UpdateDevice(p)
    \/ DeleteDevice(p)
    \/ CreateByManager(p)
    \/ UpdateByGuid(p)
    \/ DeleteByGuid(p)
    \/ ClearCache(p)
    \/ StoreDocument(p)

\* a remote call of a handler answers
Respond(p) ==
    \/ DiscoveryResponse(p)
    \/ FetchResponse(p)
    \/ SearchResponse(p)
    \/ PutResponse(p)

\* overlapping requests, each served by its own handler
Next ==
    \/ \E p \in Procs : st[p].pc = "idle" /\ ListDevices(p)
    \/ \E p \in Procs : st[p].pc = "idle" /\ CreateDevice(p)
    \/ \E p \in Procs : st[p].pc = "idle" /\ UpdateDevice(p)
    \/ \E p \in Procs : st[p].pc = "idle" /\ DeleteDevice(p)
    \/ \E p \in Procs : st[p].pc = "idle" /\ CreateByManager(p)
    \/ \E p \in Procs : st[p].pc = "idle" /\ UpdateByGuid(p)
    \/ \E p \in Procs : st[p].pc = "idle" /\ DeleteByGuid(p)
    \/ \E p \in Procs : st[p].pc = "idle" /\ ClearCache(p)
    \/ \E p \in Procs : st[p].pc = "idle" /\ StoreDocument(p)
    \/ \E p \in Procs : Respond(p)
    \/ Tick

Spec == Init /\ [][Next]_vars

\* one request at a time, each entered after the one before has returned
NextSeq ==
    \/ \E p \in SeqProcs : Accept(p)
    \/ \E p \in SeqProcs : Respond(p)
    \/ Tick

SpecSeq == Init /\ [][NextSeq]_vars

(***************************************************************************)
(* services/integration-api/routes/device_crud.py over                     *)
(* src/microshare_client/client.py: find_device_by_id and the three cached *)
(* writes.  A handler runs up to its next await; the remote store serves a *)
(* request in one step and the handler resumes in a later one, so that a   *)
(* response can be on its way while other handlers run.                    *)
(***************************************************************************)
ClientKinds == {"cfind", "cadd", "cupdate", "cremove"}
ClientWrites == {"cadd", "cupdate", "cremove"}
ClusterKey(c) == IF c = "cT" THEN "cluster:cT:io.microshare.trap.packed"
                 ELSE "cluster:cG:io.microshare.gateway.health.packed"
ClientFailure(err) == Res(FALSE, 500, err, FALSE)

\* find_device_by_id: the loops over the listing, and the 404 after them
FindDone(loc, clusters) ==
    LET c == FindCluster(clusters, loc.id)
    IN  IF c = Nil THEN Done(loc, Res(FALSE, 404, "NotFound", FALSE))
        ELSE Done(loc, [Res(TRUE, 200, "none", TRUE) EXCEPT
                            !.devices = <<FoundDevice(
                                clusters[c][FirstClientId(clusters[c], loc.id)], c)>>])

\* invalidate_cluster_cache(cluster_id, device_type)
client_invalidate_cluster_cache(cc, c) == DropKey(DropKey(cc, ClusterKey(c)), AllClustersKey)

\* find_device_by_id up to the await in list_all_clusters_cached
FindDeviceById(p) ==
    /\ Free(p)
    /\ nRequests < MaxRequests
    /\ nRequests' = nRequests + 1
    /\ \E id \in ClientIdInputs :
        LET loc0 == Enter(p, "cfind", id, NoData, NoUpdates)
        IN  IF ClusterCacheHit(cluster_cache, AllClustersKey, now)
            THEN /\ st' = [st EXCEPT ![p] =
                            FindDone([loc0 EXCEPT !.touched = {"cache_hit"}],
                                     cluster_cache[AllClustersKey].data)]
                 /\ UNCHANGED cluster_cache
            ELSE /\ st' = [st EXCEPT ![p] = [loc0 EXCEPT !.pc = "clist"]]
                 /\ cluster_cache' = ClusterCacheAfterGet(cluster_cache, AllClustersKey, now)
    /\ UNCHANGED <<remote, fast_cache, discovery_cache, smart_cache, now, nextUuid,
                   nFaults, lastPut, call, device_client, client_instance>>

\* the remote store answers GET /device/*
ClientListServed(p) ==
    /\ st[p].pc = "clist"
    /\ \E ok \in BOOLEAN :
        /\ Outcome(ok)
        /\ st' = [st EXCEPT ![p] =
                    IF ok THEN [@ EXCEPT !.pc = "clistback", !.got = remote, !.nDisc = 1]
                    ELSE Done(@, ClientFailure("ApiError"))]
    /\ UNCHANGED <<remote, fast_cache, discovery_cache, smart_cache, now, nextUuid,
                   nRequests, lastPut, call, device_client, cluster_cache, client_instance>>

\* list_all_clusters_cached resumes: cluster_cache.set, and the search
ClientListReturn(p) ==
    /\ st[p].pc = "clistback"
    /\ cluster_cache' = ClusterCacheSet(cluster_cache, AllClustersKey, st[p].got,
                                        CLIENT_CACHE_TTL, now)
    /\ st' = [st EXCEPT ![p] = FindDone(@, st[p].got)]
    /\ UNCHANGED <<remote, fast_cache, discovery_cache, smart_cache, now, nextUuid,
                   nRequests, nFaults, lastPut, call, device_client, client_instance>>

\* a cached write up to the await in get_specific_cluster
StartClientWrite(p, kind, c, id, data, updates) ==
    /\ Free(p)
    /\ nRequests < MaxRequests
    /\ nRequests' = nRequests + 1
    /\ st' = [st EXCEPT ![p] =
                [Enter(p, kind, id, data, updates) EXCEPT !.pc = "cget", !.target = c]]
    /\ UNCHANGED <<remote, fast_cache, discovery_cache, smart_cache, now, nextUuid,
                   nFaults, lastPut, call, device_client, cluster_cache, client_instance>>

AddDeviceCached(p) ==
    \E c \in DOMAIN remote :
        StartClientWrite(p, "cadd", c, ClientDeviceId, ClientNewDevice(ClientDeviceId),
                         NoUpdates)
UpdateDeviceCached(p) ==
    \E c \in DOMAIN remote, id \in ClientIdInputs, updates \in ClientUpdateInputs :
        StartClientWrite(p, "cupdate", c, id, NoData, updates)
RemoveDeviceCached(p) ==
    \E c \in DOMAIN remote, id \in ClientIdInputs :
        StartClientWrite(p, "cremove", c, id, NoData, NoUpdates)

\* add_device_to_cluster, update_device_in_cluster, remove_device_from_cluster:
\* the document fetched is changed, or the device is not in it
ClientChanged(loc, raw) ==
    LET i == FirstClientId(raw, loc.id)
    IN  CASE loc.kind = "cadd" -> Append(raw, loc.data)
          [] loc.kind = "cupdate" ->
                IF i = 0 THEN raw ELSE [raw EXCEPT ![i] = ClientUpdated(@, loc.updates)]
          [] OTHER -> ClientRemoved(raw, loc.id)
ClientRaises(loc, raw) ==
    /\ loc.kind \in {"cupdate", "cremove"}
    /\ FirstClientId(raw, loc.id) = 0

\* the remote store answers the GET of the cluster; the handler builds the
\* new document and sends the PUT
ClientGetServed(p) ==
    /\ st[p].pc = "cget"
    /\ \E ok \in BOOLEAN :
        /\ Outcome(ok)
        /\ LET loc == st[p]
               raw == remote[loc.target]
           IN  st' = [st EXCEPT ![p] =
                        IF ~ok THEN Done(loc, ClientFailure("ApiError"))
                        ELSE IF ClientRaises(loc, raw)
                        THEN Done(loc, ClientFailure("NotFound"))
                        ELSE [loc EXCEPT !.pc = "cput", !.base = raw, !.nFetch = 1,
                                         !.doc = ClientChanged(loc, raw)]]
    /\ UNCHANGED <<remote, fast_cache, discovery_cache, smart_cache, now, nextUuid,
                   nRequests, lastPut, call, device_client, cluster_cache, client_instance>>

\* the remote store answers the PUT
ClientPutServed(p) ==
    /\ st[p].pc = "cput"
    /\ \E ok \in BOOLEAN :
        /\ Outcome(ok)
        /\ LET loc == st[p]
               c == loc.target
           IN  /\ remote' = IF ok THEN [remote EXCEPT ![c] = PutDocument(@, loc.doc)]
                             ELSE remote
               /\ lastPut' = IF ok THEN [lastPut EXCEPT ![c] = p] ELSE lastPut
               /\ st' = [st EXCEPT ![p] =
                            IF ok THEN [loc EXCEPT !.pc = "cputback", !.put = "ok"]
                            ELSE Done([loc EXCEPT !.put = "rejected"],
                                      ClientFailure("ApiError"))]
    /\ UNCHANGED <<fast_cache, discovery_cache, smart_cache, now, nextUuid,
                   nRequests, call, device_client, cluster_cache, client_instance>>

\* the cached write resumes: invalidate_cluster_cache, and the result
ClientWriteReturn(p) ==
    /\ st[p].pc = "cputback"
    /\ cluster_cache' = client_invalidate_cluster_cache(cluster_cache, st[p].target)
    /\ st' = [st EXCEPT ![p] = Done(@, Res(TRUE, 200, "none", TRUE))]
    /\ UNCHANGED <<remote, fast_cache, discovery_cache, smart_cache, now, nextUuid,
                   nRequests, nFaults, lastPut, call, device_client, client_instance>>

(***************************************************************************)
(* services/integration-api/dependencies.py: get_microshare_client, the    *)
(* dependency every route of the integration API resolves first.           *)
(***************************************************************************)
\* up to the await of authenticate's POST, or the return of the bound instance
GetMicroshareClient(p) ==
    /\ Free(p)
    /\ nRequests < MaxRequests
    /\ nRequests' = nRequests + 1
    /\ LET loc0 == Enter(p, "getclient", NoId, NoData, NoUpdates)
           new == Len(client_instance.heap) + 1
       IN  IF client_instance.ref = 0
           THEN /\ client_instance' = [ref |-> new,
                                       heap |-> Append(client_instance.heap, NewClient)]
                /\ st' = [st EXCEPT ![p] = [loc0 EXCEPT !.pc = "cauth", !.client = new]]
           ELSE /\ UNCHANGED client_instance
                /\ st' = [st EXCEPT ![p] =
                            Done([loc0 EXCEPT !.client = client_instance.ref],
                                 Res(TRUE, 200, "none", FALSE))]
    /\ UNCHANGED <<remote, fast_cache, discovery_cache, smart_cache, now, nextUuid,
                   nFaults, lastPut, call, device_client, cluster_cache>>

\* the auth host answers: authenticate stores the token and the instance is
\* returned, or the except branch awaits __aexit__, which closes the session
AuthenticateServed(p) ==
    /\ st[p].pc = "cauth"
    /\ \E ok \in BOOLEAN :
        /\ Outcome(ok)
        /\ LET r == client_instance.ref
           IN  IF ok
               THEN /\ client_instance' = [client_instance EXCEPT !.heap[r].token = TRUE]
                    /\ st' = [st EXCEPT ![p] = Done([@ EXCEPT !.client = r],
                                                    Res(TRUE, 200, "none", FALSE))]
               ELSE /\ client_instance' =
                            [client_instance EXCEPT !.heap[r].session = "closed"]
                    /\ st' = [st EXCEPT ![p].pc = "cclose"]
    /\ UNCHANGED <<remote, fast_cache, discovery_cache, smart_cache, now, nextUuid,
                   nRequests, lastPut, call, device_client, cluster_cache>>

\* the except branch resumes: _client_instance = None, raise AuthenticationError
AuthenticationFailed(p) ==
    /\ st[p].pc = "cclose"
    /\ client_instance' = [client_instance EXCEPT !.ref = 0]
    /\ st' = [st EXCEPT ![p] = Done([@ EXCEPT !.client = 0],
                                    ClientFailure("AuthenticationError"))]
    /\ UNCHANGED <<remote, fast_cache, discovery_cache, smart_cache, now, nextUuid,
                   nRequests, nFaults, lastPut, call, device_client, cluster_cache>>

\* overlapping requests to the integration API
NextClient ==
    \/ \E p \in Procs : GetMicroshareClient(p)
    \/ \E p \in Procs : AuthenticateServed(p)
    \/ \E p \in Procs : AuthenticationFailed(p)
    \/ \E p \in Procs : FindDeviceById(p)
    \/ \E p \in Procs : AddDeviceCached(p)
    \/ \E p \in Procs : UpdateDeviceCached(p)
    \/ \E p \in Procs : RemoveDeviceCached(p)
    \/ \E p \in Procs : ClientListServed(p)
    \/ \E p \in Procs : ClientListReturn(p)
    \/ \E p \in Procs : ClientGetServed(p)
    \/ \E p \in Procs : ClientPutServed(p)
    \/ \E p \in Procs : ClientWriteReturn(p)

SpecClient == Init /\ [][NextClient]_vars

(***************************************************************************)
(* enhanced_cache_manager.py: the methods of SmartCacheManager called      *)
(* directly, in any order, on the module's smart_cache instance.           *)
(***************************************************************************)
\* the caches that a method of SmartCacheManager does not touch
OtherCaches == <<fast_cache, discovery_cache, device_client, cluster_cache, client_instance>>

\* a call of a cache method, with its arguments and what it returned
ReturnedCall(op, cluster_id, arg, out) ==
    /\ call.n < MaxCalls
    /\ call' = [op |-> op, cluster_id |-> cluster_id, arg |-> arg, n |-> call.n + 1,
                out |-> out]
    /\ UNCHANGED <<remote, now, st, nextUuid, nRequests, nFaults, lastPut>>

Returned(op, cluster_id, out) == ReturnedCall(op, cluster_id, Nil, out)

\* a call that takes a device type
ReturnedFor(op, device_type, out) == ReturnedCall(op, Nil, device_type, out)

Called(op, cluster_id) == Returned(op, cluster_id, NoOut) /\ UNCHANGED OtherCaches

\* the partial device dicts passed to update_device_in_cache
CacheUpdateInputs == {[status |-> "inactive"], [placement |-> "External", status |-> "lost"]}

CallCacheClusterData(c) ==
    /\ Called("cache_cluster_data", c)
    /\ smart_cache' = cache_cluster_data(smart_cache, c, remote[c], now)

CallAddDevice(c) ==
    /\ Returned("add_device_to_cache", c, Out(add_device_result(smart_cache, c), Nil))
    /\ UNCHANGED OtherCaches
    /\ \E data \in CreateInputs :
        smart_cache' = add_device_to_cache(smart_cache, c, FastNewDevice(data, now), now)

\* the identifiers a caller holds: a deviceId, or the guid of a stored device
CacheIdInputs == FastIdInputs \cup {InitTrapDevice.guid}

CallUpdateDevice(c) ==
    \E id \in CacheIdInputs, device_data \in CacheUpdateInputs :
        /\ Returned("update_device_in_cache", c,
                    Out(update_device_result(smart_cache, c, id),
                        [device_id |-> id, device_data |-> device_data]))
        /\ UNCHANGED OtherCaches
        /\ smart_cache' = update_device_in_cache(smart_cache, c, id, device_data, now)

CallRemoveDevice(c) ==
    \E id \in FastIdInputs :
        /\ Returned("remove_device_from_cache", c,
                    Out(remove_device_result(smart_cache, c, id), Nil))
        /\ UNCHANGED OtherCaches
        /\ smart_cache' = remove_device_from_cache(smart_cache, c, id, now)

CallInvalidate(c) ==
    /\ Called("invalidate_cluster_cache", c)
    /\ smart_cache' = invalidate_cluster_cache(smart_cache, c)

CallClearAll ==
    /\ Called("clear_all_cache", Nil)
    /\ smart_cache' = clear_all_cache(smart_cache)

CallUpdateDiscovery ==
    /\ Called("update_discovery_cache", Nil)
    /\ \E m \in {BuildClusterMap(remote), EmptyMap} :
        smart_cache' = update_discovery_cache(smart_cache, m, now)

\* update_after_operation with each operation type, with and without the
\* optional device_id and device_data
OperationTypes == {"CREATE", "UPDATE", "DELETE", "REFRESH"}
CallUpdateAfterOperation(c) ==
    \E operation_type \in OperationTypes, id \in {NoId, DEFAULT_DEVICE_ID},
       given \in BOOLEAN :
        LET device_data == IF ~given THEN NoData
                           ELSE IF operation_type = "CREATE"
                           THEN FastNewDevice(CreateData("rodent_sensor", "R1"), now)
                           ELSE [status |-> "inactive"]
        IN  /\ ReturnedCall("update_after_operation", c,
                    [operation_type |-> operation_type, device_id |-> id,
                     device_data |-> device_data],
                    Out(update_after_result(smart_cache, operation_type, c, id, device_data),
                        SurgicalBranch(operation_type, id, device_data)))
            /\ UNCHANGED OtherCaches
            /\ smart_cache' = update_after_operation(smart_cache, operation_type, c, id,
                                                     device_data, now)

(***************************************************************************)
(* client.py: OptimizedDeviceClient.discover_clusters on the module's      *)
(* device_client.  A failed request raises out of the method.              *)
(***************************************************************************)
CallDiscoverClusters ==
    \E ok \in BOOLEAN :
        LET clusters == [c \in DOMAIN remote |-> DeviceCluster(c, remote[c])]
        IN  /\ Returned("discover_clusters", Nil,
                        IF ok THEN Out(TRUE, clusters) ELSE Out(FALSE, "error"))
            /\ device_client' = IF ok THEN clusters ELSE device_client
            /\ UNCHANGED <<smart_cache, fast_cache, discovery_cache, cluster_cache, client_instance>>

(***************************************************************************)
(* The validity tests of the caches, called directly.                      *)
(***************************************************************************)
CallIsDiscoveryCacheValid ==
    /\ Returned("is_discovery_cache_valid", Nil,
                Out(is_discovery_cache_valid(smart_cache, now), Nil))
    /\ UNCHANGED <<smart_cache, fast_cache, discovery_cache, device_client, cluster_cache, client_instance>>

CallGetCachedClusterData(c) ==
    /\ Returned("get_cached_cluster_data", c,
                Out(get_cached_cluster_data(smart_cache, c, now), Nil))
    /\ UNCHANGED <<smart_cache, fast_cache, discovery_cache, device_client, cluster_cache, client_instance>>

\* operations.py: discovery_cache.set and discovery_cache.get
CallDiscoveryCacheSet ==
    /\ Returned("discovery_cache.set", Nil, NoOut)
    /\ discovery_cache' = SimpleCacheSet(BuildClusterMap(remote), now)
    /\ UNCHANGED <<smart_cache, fast_cache, device_client, cluster_cache, client_instance>>

CallDiscoveryCacheGet ==
    /\ Returned("discovery_cache.get", Nil, Out(SimpleCacheValid(discovery_cache, now), Nil))
    /\ discovery_cache' = SimpleCacheAfterGet(discovery_cache, now)
    /\ UNCHANGED <<smart_cache, fast_cache, device_client, cluster_cache, client_instance>>

\* src/microshare_client: cluster_cache.set and cluster_cache.get, as
\* list_all_clusters_cached calls them
CallClusterCacheSet ==
    /\ Returned("cluster_cache.set", Nil, NoOut)
    /\ cluster_cache' = ClusterCacheSet(cluster_cache, AllClustersKey, remote,
                                        CLIENT_CACHE_TTL, now)
    /\ UNCHANGED <<smart_cache, fast_cache, discovery_cache, device_client, client_instance>>

CallClusterCacheGet ==
    /\ Returned("cluster_cache.get", Nil,
                Out(ClusterCacheHit(cluster_cache, AllClustersKey, now), Nil))
    /\ cluster_cache' = ClusterCacheAfterGet(cluster_cache, AllClustersKey, now)
    /\ UNCHANGED <<smart_cache, fast_cache, discovery_cache, device_client, client_instance>>

(***************************************************************************)
(* The lookups of a cluster by device category, called directly:           *)
(* SmartCacheManager.get_cluster_for_device_type and                       *)
(* FastCRUDManager.get_target_cluster_from_cache, the latter with the      *)
(* wildcard_discovery_with_cache it falls back to.                         *)
(***************************************************************************)
CallGetClusterForDeviceType ==
    \E ty \in DeviceTypes \cup {MalformedType} :
        LET c == get_cluster_for_device_type(smart_cache, ty, now)
        IN  /\ ReturnedFor("get_cluster_for_device_type", ty, Out(c # Nil, c))
            /\ UNCHANGED <<smart_cache, fast_cache, discovery_cache, device_client,
                           cluster_cache, client_instance>>

\* the dict get_target_cluster_from_cache returns
TargetCluster(m, device_type, cache_hit) ==
    LET cs == MatchingClusters(m, FastTargetRecType(device_type))
    IN  IF cs = <<>> THEN Out(FALSE, [cluster_id |-> Nil, cache_hit |-> FALSE])
        ELSE Out(TRUE, [cluster_id |-> cs[1], cache_hit |-> cache_hit])

CallGetTargetCluster ==
    \E ty \in DeviceTypes \cup {MalformedType} :
        LET m0 == fast_cache[Bound].data
            op == "get_target_cluster_from_cache"
            Filled(m) == [fast_cache EXCEPT ![Bound] = [data |-> m, timestamp |-> now]]
        IN  IF CacheUsable("create", [device_type |-> ty], m0)
            THEN /\ ReturnedFor(op, ty, TargetCluster(m0, ty, TRUE))
                 /\ UNCHANGED <<smart_cache, fast_cache, discovery_cache, device_client,
                                cluster_cache, client_instance>>
            ELSE IF SimpleCacheValid(discovery_cache, now)
            THEN /\ ReturnedFor(op, ty, TargetCluster(discovery_cache.value, ty, FALSE))
                 /\ fast_cache' = Filled(discovery_cache.value)
                 /\ UNCHANGED <<smart_cache, discovery_cache, device_client,
                                cluster_cache, client_instance>>
            ELSE \E ok \in BOOLEAN :
                    LET m == BuildClusterMap(remote)
                    IN  /\ ReturnedFor(op, ty, IF ok THEN TargetCluster(m, ty, FALSE)
                                               ELSE TargetCluster(EmptyMap, ty, FALSE))
                        /\ discovery_cache' =
                                DiscoveryCacheAfterResponse(
                                    SimpleCacheAfterGet(discovery_cache, now), ok, m, now)
                        /\ fast_cache' = IF ok THEN Filled(m) ELSE fast_cache
                        /\ UNCHANGED <<smart_cache, device_client, cluster_cache, client_instance>>

\* routes.py get_cache_status: get_smart_cache_status()
CallGetCacheStatus ==
    /\ Returned("get_cache_status", Nil, Out(TRUE, get_cache_status(smart_cache, now)))
    /\ UNCHANGED <<smart_cache, fast_cache, discovery_cache, device_client, cluster_cache, client_instance>>

\* services/integration-api/main.py cache_stats: the entries are counted, then
\* cleanup_expired runs, then the keys are listed
CallCacheStats ==
    /\ Returned("cache_stats", Nil,
                Out(TRUE, [cached_items |-> Cardinality(DOMAIN cluster_cache),
                           expired_items_cleaned |-> expired_count(cluster_cache, now),
                           cache_keys |-> DOMAIN cleanup_expired(cluster_cache, now)]))
    /\ cluster_cache' = cleanup_expired(cluster_cache, now)
    /\ UNCHANGED <<smart_cache, fast_cache, discovery_cache, device_client, client_instance>>

\* services/integration-api/main.py clear_cache: cluster_cache.clear()
CallClusterCacheClear ==
    /\ Returned("cluster_cache.clear", Nil, NoOut)
    /\ cluster_cache' = ClusterCacheClear(cluster_cache)
    /\ UNCHANGED <<smart_cache, fast_cache, discovery_cache, device_client, client_instance>>

\* the instants at which the harness reads the clock: each ttl, the second
\* before it, and the second after the longest
HarnessAges ==
    {SMART_DISCOVERY_TTL - 1, SMART_DISCOVERY_TTL, SMART_DEVICE_TTL - 1, SMART_DEVICE_TTL,
     CLIENT_CACHE_TTL + 1}
TickCache ==
    /\ \E d \in HarnessAges :
        /\ StartTime + d > now
        /\ StartTime + d <= StartTime + MaxElapsed
        /\ now' = StartTime + d
    /\ UNCHANGED <<remote, fast_cache, discovery_cache, smart_cache, st, nextUuid,
                   nRequests, nFaults, lastPut, call, device_client, cluster_cache, client_instance>>

NextCache ==
    \/ \E c \in DOMAIN remote : CallCacheClusterData(c)
    \/ \E c \in ClusterIds : CallAddDevice(c)
    \/ \E c \in ClusterIds : CallUpdateDevice(c)
    \/ \E c \in ClusterIds : CallRemoveDevice(c)
    \/ \E c \in ClusterIds : CallInvalidate(c)
    \/ CallClearAll
    \/ CallUpdateDiscovery
    \/ \E c \in ClusterIds : CallUpdateAfterOperation(c)
    \/ CallDiscoverClusters
    \/ CallIsDiscoveryCacheValid
    \/ \E c \in ClusterIds : CallGetCachedClusterData(c)
    \/ CallDiscoveryCacheSet
    \/ CallDiscoveryCacheGet
    \/ CallClusterCacheSet
    \/ CallClusterCacheGet
    \/ CallClusterCacheClear
    \/ CallGetCacheStatus
    \/ CallCacheStats
    \/ CallGetClusterForDeviceType
    \/ CallGetTargetCluster
    \/ TickCache

SpecCache == Init /\ [][NextCache]_vars

(***************************************************************************)
(* Properties.                                                             *)
(***************************************************************************)
Cached(c) == c \in DOMAIN smart_cache.clusters

\* C1 (as amended): when the whole-document PUT of a create, update or delete is
\* rejected, the handler reports a failure, and the step that handles the
\* rejection changes no cache and no remote document: the document cache, both
\* discovery mappings and the store are as they were when the write was issued.
C1_RejectedWriteLeavesCaches ==
    [][\A p \in Procs :
        (st[p].pc = "put" /\ st'[p].put = "rejected")
            => /\ st'[p].pc = "done"
               /\ ~st'[p].res.ok
               /\ st'[p].res.err = "WriteRejected"
               /\ smart_cache' = smart_cache
               /\ discovery_cache' = discovery_cache
               /\ fast_cache' = fast_cache
               /\ remote' = remote]_vars

\* C1, witness: a create whose PUT was rejected while the document of its
\* target cluster was cached; the cached document lacks the device.
C1_Witness ==
    \E p \in Procs :
        /\ st[p].pc = "done" /\ st[p].kind = "create" /\ st[p].put = "rejected"
        /\ Cached(st[p].target)
        /\ smart_cache.clusters[st[p].target] = remote[st[p].target]

\* C1 as stated: after a rejected PUT the caches are identical to their state
\* before the operation, i.e. the operation has written to none of them.
C1_AsStated ==
    \A p \in Procs :
        (st[p].pc = "done" /\ st[p].put = "rejected")
            => (~st[p].res.ok /\ st[p].touched = {})

\* p wrote the document of cluster c after q had fetched it, and q's PUT of
\* the same document is being accepted now
Overtaken(p, q, c) ==
    /\ p # q
    /\ st[q].pc = "put" /\ st[q].target = c /\ st'[q].put = "ok"
    /\ st[p].pc = "done" /\ st[p].put = "ok" /\ st[p].target = c
    /\ st[p].kind \in {"create", "gcreate", "update", "gupdate"}
    /\ Count(st[p].dev, remote[c]) > 0
    /\ Count(st[p].dev, st[q].base) = 0
    /\ st[p].dev # st[q].dev

\* C2: when two writes to one cluster both fetch the document before either
\* writes it back, the second PUT replaces the whole document by the second
\* writer's copy: the device the first writer created or changed is no longer
\* in the store, and both writers were told that their write succeeded.
C2_LostUpdate ==
    [][\A p, q \in Procs : \A c \in DOMAIN remote :
        Overtaken(p, q, c)
            => /\ remote'[c] = st[q].doc
               /\ Count(st[p].dev, remote'[c]) = 0
               /\ st[p].res.mgr_ok /\ st'[q].res.mgr_ok]_vars

\* C2, witness: two creates in one cluster have both returned success and the
\* store holds the device of the second only.
C2_Witness ==
    \E p, q \in Procs :
        /\ p # q
        /\ st[p].pc = "done" /\ st[q].pc = "done"
        /\ st[p].kind = "create" /\ st[q].kind \in {"create", "gcreate"}
        /\ st[p].res.ok /\ st[q].res.ok
        /\ st[p].target = st[q].target
        /\ st[p].dev # st[q].dev
        /\ Count(st[p].dev, remote[st[p].target]) = 0
        /\ Count(st[q].dev, remote[st[q].target]) = 1

Surgical == {"add_device_to_cache", "update_device_in_cache", "remove_device_from_cache"}

\* the cached document and timestamp of cluster d, Nil where there is none
DocumentOf(sc, d) == IF d \in DOMAIN sc.clusters THEN sc.clusters[d] ELSE <<Nil>>
TimestampOf(sc, d) == IF d \in DOMAIN sc.timestamps THEN sc.timestamps[d] ELSE -1

\* C3: add_device_to_cache, update_device_in_cache and remove_device_from_cache
\* called for cluster c leave the cached document and the timestamp of every
\* other cluster, and the discovery mapping, as they were.
C3_SurgicalFrame ==
    [][(call'.n # call.n /\ call'.op \in Surgical)
        => /\ \A d \in ClusterIds \ {call'.cluster_id} :
                /\ DocumentOf(smart_cache', d) = DocumentOf(smart_cache, d)
                /\ TimestampOf(smart_cache', d) = TimestampOf(smart_cache, d)
           /\ smart_cache'.disc_data = smart_cache.disc_data
           /\ smart_cache'.disc_timestamp = smart_cache.disc_timestamp]_vars

\* C3, witness: both documents are cached, a device has been removed from the
\* document of cT, and the document of cG is the one that was stored.
C3_Witness ==
    /\ call.op = "remove_device_from_cache" /\ call.cluster_id = "cT"
    /\ Cached("cT") /\ Cached("cG")
    /\ Len(smart_cache.clusters["cT"]) < Len(remote["cT"])
    /\ smart_cache.clusters["cG"] = remote["cG"]

\* C4 as stated: the list request that follows the cache-clear request sends
\* exactly one bulk discovery request before it fetches the clusters.
C4_AsStated ==
    \A p \in Procs :
        (st[p].kind = "list" /\ st[p].prev.kind = "clear") => st[p].nDisc = 1

\* C5 as stated: the bulk discovery request is sent at most once between two
\* moments at which the discovery mapping is empty, so two discovery requests
\* are never outstanding together.
C5_AsStated ==
    Cardinality({p \in Procs : st[p].pc = "disc" /\ st[p].kind \in FastKinds}) <= 1

\* C6 as stated: with a populated discovery mapping, resolving the target
\* cluster of a create sends no discovery request.
C6_AsStated ==
    \A p \in Procs :
        (st[p].kind = "create" /\ st[p].pc = "disc")
            => fast_cache[st[p].cache].data = EmptyMap

\* the categories' required length of the location vector
RequiredLayers(device_type) == IF device_type = "gateway" THEN 4 ELSE 6

\* C7 as stated: the list that follows a successful create returns a device
\* whose guid is the guid the create returned, decorated with the category it
\* was created in and with a fully populated location vector.
C7_AsStated ==
    \A p \in Procs :
        (/\ st[p].pc = "done" /\ st[p].kind = "list" /\ st[p].res.ok
         /\ st[p].prev.kind \in {"create", "gcreate"} /\ st[p].prev.ok
         /\ nFaults = 0)
            => /\ st[p].prev.dev.guid # Absent
               /\ \E i \in 1..Len(st[p].res.devices) :
                    LET d == st[p].res.devices[i]
                    IN  /\ d.guid = st[p].prev.dev.guid
                        /\ d.erp_ready
                        /\ d.location_layers = RequiredLayers(d.device_type)

\* no device of the store is found under id by the update that looks for it
Unheld(kind, id) ==
    \A c \in DOMAIN remote : \A i \in 1..Len(remote[c]) :
        IF kind = "update" THEN ~DeviceIdMatches(remote[c][i], id)
        ELSE ~RawGuidMatches(remote[c][i], id)

\* C8: an update by an identifier that no cluster holds ends with "not found"
\* (or with the discovery error when the discovery request itself fails); no
\* step of it writes to the store or changes a cached document.
C8_UpdateOfUnknown ==
    [][\A p \in Procs :
        (/\ st'[p] # st[p]
         /\ st'[p].kind \in {"update", "gupdate"}
         /\ Unheld(st'[p].kind, st'[p].id))
            => /\ remote' = remote
               /\ smart_cache' = smart_cache
               /\ st'[p].pc # "put"
               /\ st'[p].put = "none"
               /\ st'[p].pc = "done" =>
                    \/ st'[p].res.err = "NotFound"
                    \/ st[p].pc = "disc" /\ st'[p].res.err = "Discovery"]_vars

\* C8, witness: update_device_by_guid has searched both clusters for a guid
\* that none holds and returned "not found", with both documents cached.
C8_Witness ==
    \E p \in Procs :
        /\ st[p].pc = "done" /\ st[p].kind = "gupdate" /\ st[p].id = UnknownGuid
        /\ st[p].nFetch = 2 /\ st[p].res.err = "NotFound"
        /\ Cached("cT") /\ smart_cache.clusters["cT"] = remote["cT"]

\* C9 as stated: a delete by a guid that matches a test pattern sends no
\* discovery request and fetches no cluster.
C9_AsStated ==
    \A p \in Procs :
        (st[p].kind \in {"delete", "gdelete"} /\ IsTestGuid(st[p].id))
            => st[p].nDisc = 0 /\ st[p].nFetch = 0

\* C10 as stated: a delete repeated after it has removed the device is
\* reported as success and writes nothing to the store (no remote call fails).
C10_AsStated ==
    \A p \in Procs :
        (/\ st[p].pc = "done" /\ st[p].kind = "delete"
         /\ st[p].prev.kind = "delete" /\ st[p].prev.id = st[p].id
         /\ st[p].prev.put = "ok"
         /\ nFaults = 0)
            => st[p].res.ok /\ st[p].put = "none"

\* C11 as stated: a listing returns one entry for every device of every cluster
\* whose fetch succeeded, the devices with a short location vector included.
C11_AsStated ==
    (call.op = "discover_clusters" /\ call.out.ok)
        => \A c \in DOMAIN remote : Len(call.out.val[c].devices) = Len(remote[c])

\* C11, the list of routes.py: every successful fetch of a cluster adds one
\* decorated entry per device of its document, in order, and nothing else.
C11_ListComplete ==
    [][\A p \in Procs :
        (st[p].kind = "list" /\ st[p].pc = "fetch" /\ st'[p] # st[p])
            => LET c == Head(st[p].todo)
                   old == st[p].res.devices
                   new == st'[p].res.devices
               IN  IF nFaults' # nFaults THEN new = old
                   ELSE /\ Len(new) = Len(old) + Len(remote[c])
                        /\ SubSeq(new, 1, Len(old)) = old
                        /\ \A i \in 1..Len(remote[c]) :
                            LET d == new[Len(old) + i]
                                r == remote[c][i]
                            IN  /\ d.guid = Get(r.guid, <<>>)
                                /\ d.cluster_id = c
                                /\ d.device_type = DeviceTypeOf(RecTypeOf(c))
                                /\ d.location_layers = Len(r.location)
                                /\ d.erp_ready = (Len(r.location) >= RequiredLayers(d.device_type))]_vars
\* C12 as stated: the device a create is about to write carries the location
\* vector of its category: six fields, the last two being the placement and the
\* configuration (Internal and Bait/Lured by default), for a rodent sensor, and
\* the first four fields for a gateway.
C12_AsStated ==
    \A p \in Procs :
        (st[p].pc = "put" /\ st[p].kind \in {"create", "gcreate"})
            => LET data == st[p].data
                   four == <<data.customer, data.site, data.area, data.erp_reference>>
               IN  st[p].dev.location =
                        IF data.device_type = "gateway" THEN four
                        ELSE four \o <<"Internal", "Bait/Lured">>
\* C13 as stated: the device a successful create has added to the store has a
\* non-empty guid, and no other device of the store has the same guid.
C13_AsStated ==
    \A p \in Procs :
        (/\ st[p].pc = "done" /\ st[p].kind \in {"create", "gcreate"}
         /\ st[p].put = "ok")
            => /\ st[p].dev.guid # Absent
               /\ Cardinality({<<c, i>> \in ClusterIds \X (1..6) :
                        /\ c \in DOMAIN remote /\ i <= Len(remote[c])
                        /\ remote[c][i].guid = st[p].dev.guid}) = 1
\* the store has no cluster of the record type that the create path derives
\* from the category of data
NoClusterFor(kind, data) ==
    LET rec_type == IF kind = "create" THEN FastTargetRecType(data.device_type)
                    ELSE CanonicalRecType(data)
    IN  \A c \in DOMAIN remote : RecTypeOf(c) # rec_type

\* C14: a create for a category that has no cluster in the store fetches no
\* cluster document and issues no write; it waits for the discovery and then
\* fails with ClusterNotFound (with the discovery error when the discovery
\* request itself failed).
C14_NoClusterNoWrite ==
    \A p \in Procs :
        (st[p].kind \in {"create", "gcreate"} /\ NoClusterFor(st[p].kind, st[p].data))
            => /\ st[p].pc \in {"disc", "done"}
               /\ st[p].nFetch = 0
               /\ st[p].put = "none"
               /\ st[p].pc = "done" =>
                    /\ ~st[p].res.ok
                    /\ \/ st[p].res.err = "ClusterNotFound"
                       \/ nFaults > 0 /\ st[p].res.err = "Discovery"

\* C14, witness: the store has no gateway cluster; a create of a gateway has
\* run the discovery, which succeeded, and has failed with ClusterNotFound.
C14_Witness ==
    \E p \in Procs :
        /\ st[p].pc = "done" /\ st[p].kind = "create"
        /\ st[p].data.device_type = "gateway"
        /\ NoClusterFor("create", st[p].data)
        /\ st[p].nDisc = 1 /\ nFaults = 0
        /\ st[p].res.err = "ClusterNotFound"
\* C15 as stated: a create whose category is neither of the two known ones is
\* rejected; it is not treated as one of the known categories, so it never gets
\* a device written into a cluster of the store.
C15_AsStated ==
    \A p \in Procs :
        (st[p].kind \in {"create", "gcreate"} /\ st[p].data.device_type \notin DeviceTypes)
            => st[p].put # "ok"
Holds(c, guid) == \E i \in 1..Len(remote[c]) : RawGuidMatches(remote[c][i], guid)

\* C17: in the parallel search of find_device_by_guid a fetch that fails counts
\* as "no match in this cluster" and a fetch that succeeds matches exactly when
\* the document holds the guid; once the last fetch has settled the device is
\* found if some cluster matched, whatever happened to the other fetches, and
\* the search ends with "not found" only if no cluster matched.
C17_FailedFetchIsNoMatch ==
    [][\A p \in Procs :
        (st[p].pc = "gather" /\ st'[p] # st[p])
            => LET c == CHOOSE c \in st[p].pend : c \notin st'[p].pend
                   hitNow == nFaults' = nFaults /\ Holds(c, st[p].id)
                   hitBefore == \E d \in DOMAIN st[p].got : st[p].got[d].found
               IN  IF st'[p].pc = "gather"
                   THEN st'[p].got[c].found = hitNow
                   ELSE IF hitNow \/ hitBefore
                   THEN st'[p].pc = "put" /\ Holds(st'[p].target, st[p].id)
                   ELSE st'[p].pc = "done" /\ st'[p].res.err = "NotFound"]_vars

\* C17, witness: the first operation served is an update or delete by a guid of
\* the trap cluster; one of its two fetches failed and the device was found.
C17_Witness ==
    \E p \in Procs :
        /\ st[p].pc = "put" /\ st[p].kind \in {"gupdate", "gdelete"}
        /\ nRequests = 1 /\ nFaults = 1
        /\ st[p].nDisc = 1 /\ st[p].nFetch = 2
        /\ st[p].target = "cT" /\ Holds("cT", st[p].id)

\* C18: find_device_by_guid starts one fetch per cluster of the mapping and
\* concludes, with "not found" or with the device, at the step at which the
\* last outstanding fetch settles: never while a fetch is still outstanding.
C18_ConcludesAfterAllSettle ==
    [][\A p \in Procs :
        (st[p].pc = "gather" /\ st'[p].pc # "gather")
            => /\ Cardinality(st[p].pend) = 1
               /\ st'[p].nFetch = Cardinality(DOMAIN st[p].cmap)]_vars

\* C18, witness: a delete by a guid that no cluster holds has fetched both
\* clusters, no call failing, and ended with "not found".
C18_Witness ==
    \E p \in Procs :
        /\ st[p].pc = "done" /\ st[p].kind = "gdelete" /\ st[p].id = UnknownGuid
        /\ st[p].nFetch = 2 /\ nFaults = 0
        /\ st[p].res.err = "NotFound"
\* the reads of the three caches of api/devices report a hit exactly when the
\* entry is populated and younger than its ttl
ApiCachesStrict ==
    /\ call'.op = "is_discovery_cache_valid"
        => (call'.out.ok <=> /\ smart_cache.disc_data # EmptyMap
                             /\ now - smart_cache.disc_timestamp < SMART_DISCOVERY_TTL)
    /\ call'.op = "get_cached_cluster_data"
        => (call'.out.ok <=> /\ call'.cluster_id \in DOMAIN smart_cache.clusters
                             /\ now - smart_cache.timestamps[call'.cluster_id]
                                    < SMART_DEVICE_TTL)
    /\ call'.op = "discovery_cache.get"
        => (call'.out.ok <=> /\ discovery_cache # NoEntry
                             /\ now - discovery_cache.timestamp < DISCOVERY_CACHE_TTL)

\* C19, the caches of api/devices: see ApiCachesStrict.
C19_ApiCaches == [][call'.n # call.n => ApiCachesStrict]_vars

\* C19 as stated: every cache read reports a hit exactly when the entry is
\* populated and now - timestamp < ttl; at an age equal to the ttl it misses.
C19_AsStated ==
    [][call'.n # call.n =>
        /\ ApiCachesStrict
        /\ call'.op = "cluster_cache.get"
            => (call'.out.ok <=>
                    /\ AllClustersKey \in DOMAIN cluster_cache
                    /\ now - cluster_cache[AllClustersKey].timestamp
                            < cluster_cache[AllClustersKey].ttl)]_vars
(***************************************************************************)
(* C20.  A lookup of the cluster of a device category in a mapping that    *)
(* holds a cluster of the category.  FastCRUDManager's lookup returns the  *)
(* cluster from its mapping, as a cache hit, whatever the age of the       *)
(* mapping; SmartCacheManager's lookup returns it only while the mapping   *)
(* is valid, and None once it has expired.                                 *)
(***************************************************************************)
Holding(m, ty) == m # EmptyMap /\ MatchingClusters(m, FastTargetRecType(ty)) # <<>>
FastMappingAge == now - fast_cache[Bound].timestamp
SmartMappingAge == now - smart_cache.disc_timestamp

C20_SmartLookupExpired ==
    /\ call.op = "get_cluster_for_device_type"
    /\ call.arg \in DeviceTypes
    /\ Holding(smart_cache.disc_data, call.arg)
    /\ SmartMappingAge >= SMART_DISCOVERY_TTL
    /\ ~call.out.ok

C21_SurgicalOnAbsentCluster ==
    [][(call'.n # call.n /\ call'.op \in Surgical
            /\ call'.cluster_id \notin DOMAIN smart_cache.clusters)
        => /\ ~call'.out.ok
           /\ smart_cache' = smart_cache]_vars

\* a device was offered for cluster cG while only cT had a cached document
C21_Witness ==
    /\ call.op = "add_device_to_cache" /\ call.cluster_id = "cG"
    /\ ~call.out.ok
    /\ DOMAIN smart_cache.clusters = {"cT"}
    /\ DOMAIN smart_cache.timestamps = {"cT"}

(***************************************************************************)
(* C22.  update_device_in_cache on a cached cluster.  As stated: the       *)
(* device whose guid is the identifier passed is located, the fields of    *)
(* device_data are merged into it, each of its other fields and each other *)
(* device of the document keeps its value, and the call returns True; when *)
(* no device of the cached document has that guid the call returns False   *)
(* and changes nothing.                                                    *)
(***************************************************************************)
MergedOnly(before, after, i, device_data, frame) ==
    /\ Len(after) = Len(before)
    /\ \A j \in 1..Len(before) : j # i => after[j] = before[j]
    /\ \A k \in DOMAIN before[i] :
            IF k \in DOMAIN device_data THEN after[i][k] = device_data[k]
            ELSE k \in frame => after[i][k] = before[i][k]

\* the first device of the document that carries the identifier, 0 for none
FirstIdentified(doc, id) ==
    IF FirstRawGuid(doc, id) # 0 THEN FirstRawGuid(doc, id) ELSE FirstDeviceId(doc, id)

C22_AsStated ==
    [][(call'.n # call.n /\ call'.op = "update_device_in_cache"
            /\ call'.cluster_id \in DOMAIN smart_cache.clusters)
        => LET c == call'.cluster_id
               doc == smart_cache.clusters[c]
               i == FirstIdentified(doc, call'.out.val.device_id)
           IN  IF i = 0
               THEN ~call'.out.ok /\ smart_cache' = smart_cache
               ELSE /\ call'.out.ok
                    /\ MergedOnly(doc, smart_cache'.clusters[c], i,
                                  call'.out.val.device_data, DOMAIN doc[i])]_vars

\* what the code does: the device is the first one whose deviceId is the
\* identifier passed, and lastModified is set besides the merged fields
C22_MergeByDeviceId ==
    [][(call'.n # call.n /\ call'.op = "update_device_in_cache"
            /\ call'.cluster_id \in DOMAIN smart_cache.clusters)
        => LET c == call'.cluster_id
               doc == smart_cache.clusters[c]
               i == FirstDeviceId(doc, call'.out.val.device_id)
           IN  IF i = 0
               THEN ~call'.out.ok /\ smart_cache' = smart_cache
               ELSE /\ call'.out.ok
                    /\ MergedOnly(doc, smart_cache'.clusters[c], i,
                                  call'.out.val.device_data,
                                  DOMAIN doc[i] \ {"lastModified"})
                    /\ smart_cache'.clusters[c][i].lastModified = now]_vars

(***************************************************************************)
(* C23 as stated: when the write-back of a create, an update or a delete   *)
(* is accepted, the code that follows it clears no cache: every discovery  *)
(* mapping is as it was before, and so are the cached document and         *)
(* timestamp of every cluster other than the one written.                  *)
(***************************************************************************)
C23_AsStated ==
    [][\A p \in Procs :
        (st[p].pc = "put" /\ st'[p].pc = "done" /\ st'[p].put = "ok")
        => /\ discovery_cache' = discovery_cache
           /\ fast_cache' = fast_cache
           /\ smart_cache'.disc_data = smart_cache.disc_data
           /\ smart_cache'.disc_timestamp = smart_cache.disc_timestamp
           /\ \A d \in ClusterIds \ {st[p].target} :
                /\ DocumentOf(smart_cache', d) = DocumentOf(smart_cache, d)
                /\ TimestampOf(smart_cache', d) = TimestampOf(smart_cache, d)]_vars

(***************************************************************************)
(* C24.  update_after_operation drops the cached document of its cluster   *)
(* exactly when the call names no surgical operation: an operation type    *)
(* other than CREATE, UPDATE and DELETE, or one whose device_id or         *)
(* device_data is missing.  A surgical operation that does not find the    *)
(* cluster or the device reports failure and drops nothing.                *)
(***************************************************************************)
Dropped(c) == c \in DOMAIN smart_cache.clusters /\ c \notin DOMAIN smart_cache'.clusters

C24_InvalidationWithoutSurgical ==
    [][(call'.n # call.n /\ call'.op = "update_after_operation")
        => LET c == call'.cluster_id
               a == call'.arg
               b == SurgicalBranch(a.operation_type, a.device_id, a.device_data)
           IN  /\ \A d \in ClusterIds \ {c} : ~Dropped(d)
               /\ b = "CLUSTER_INVALIDATION"
                    => /\ c \notin DOMAIN smart_cache'.clusters
                       /\ c \notin DOMAIN smart_cache'.timestamps
               /\ b # "CLUSTER_INVALIDATION"
                    => /\ ~Dropped(c)
                       /\ ~call'.out.ok => smart_cache' = smart_cache]_vars

\* an UPDATE without device_data has dropped the cached document of cT, and
\* the document of cG is still cached
C24_Witness ==
    /\ call.op = "update_after_operation" /\ call.cluster_id = "cT"
    /\ call.arg.operation_type = "UPDATE" /\ call.arg.device_data = NoData
    /\ ~Cached("cT") /\ Cached("cG")

\* C24 as stated: the document is dropped when the surgical operation cannot
\* locate the cluster in the cache, and in no other case
C24_AsStated ==
    [][(call'.n # call.n /\ call'.op = "update_after_operation")
        => (call'.out.val = "CLUSTER_INVALIDATION"
                <=> call'.cluster_id \notin DOMAIN smart_cache.clusters)]_vars

(***************************************************************************)
(* C25.  invalidate_cluster_cache(c) removes the cached document and the   *)
(* timestamp of cluster c and nothing else: the discovery mapping and the  *)
(* document and timestamp of every other cluster are as before, and the    *)
(* cache is unchanged when c has no cached document.                       *)
(***************************************************************************)
C25_InvalidateOneCluster ==
    [][(call'.n # call.n /\ call'.op = "invalidate_cluster_cache")
        => LET c == call'.cluster_id
           IN  /\ c \notin DOMAIN smart_cache'.clusters
               /\ c \notin DOMAIN smart_cache'.timestamps
               /\ \A d \in ClusterIds \ {c} :
                    /\ DocumentOf(smart_cache', d) = DocumentOf(smart_cache, d)
                    /\ TimestampOf(smart_cache', d) = TimestampOf(smart_cache, d)
               /\ smart_cache'.disc_data = smart_cache.disc_data
               /\ smart_cache'.disc_timestamp = smart_cache.disc_timestamp
               /\ (c \notin DOMAIN smart_cache.clusters
                        /\ c \notin DOMAIN smart_cache.timestamps)
                    => smart_cache' = smart_cache]_vars

\* cT has been invalidated and the document of cG, cached before, is still there
C25_Witness ==
    /\ call.op = "invalidate_cluster_cache" /\ call.cluster_id = "cT"
    /\ DOMAIN smart_cache.clusters = {"cG"}
    /\ DOMAIN smart_cache.timestamps = {"cG"}
    /\ smart_cache.clusters["cG"] = remote["cG"]

(***************************************************************************)
(* C26.  clear_all_cache and cluster_cache.clear leave their cache with no *)
(* entry: the discovery mapping is not valid and every get misses.  The    *)
(* cache stays empty until a document or a mapping is stored again.        *)
(***************************************************************************)
SmartCacheWiped(sc, t) ==
    /\ DOMAIN sc.clusters = {} /\ DOMAIN sc.timestamps = {} /\ DOMAIN sc.disc_data = {}
    /\ ~is_discovery_cache_valid(sc, t)
    /\ \A c \in ClusterIds : ~get_cached_cluster_data(sc, c, t)
    /\ \A ty \in DeviceTypes : get_cluster_for_device_type(sc, ty, t) = Nil
ClusterCacheWiped(cc, t) ==
    DOMAIN cc = {} /\ ~ClusterCacheHit(cc, AllClustersKey, t)

C26_ClearAllWipes ==
    [][/\ (call'.n # call.n /\ call'.op = "clear_all_cache")
            => SmartCacheWiped(smart_cache', now')
       /\ (call'.n # call.n /\ call'.op = "cluster_cache.clear")
            => ClusterCacheWiped(cluster_cache', now')
       /\ (SmartCacheWiped(smart_cache, now)
                /\ call'.op \notin {"cache_cluster_data", "update_discovery_cache"})
            => SmartCacheWiped(smart_cache', now')
       /\ (ClusterCacheWiped(cluster_cache, now) /\ call'.op # "cluster_cache.set")
            => ClusterCacheWiped(cluster_cache', now')]_vars

\* clear_all_cache was the third call of the run, and it has left nothing
C26_Witness ==
    /\ call.op = "clear_all_cache" /\ call.n = 3
    /\ SmartCacheWiped(smart_cache, now)
    /\ cluster_cache = <<>>

(***************************************************************************)
(* C27 as stated: a cache-status query (get_cache_status of the device     *)
(* API, cache_stats of the integration API) changes no cache, and the      *)
(* entry counts it reports are those of the cache after the call.          *)
(***************************************************************************)
StatusQueries == {"get_cache_status", "cache_stats"}

C27_AsStated ==
    [][(call'.n # call.n /\ call'.op \in StatusQueries)
        => /\ smart_cache' = smart_cache
           /\ cluster_cache' = cluster_cache
           /\ fast_cache' = fast_cache /\ discovery_cache' = discovery_cache
           /\ call'.op = "cache_stats"
                => call'.out.val.cached_items = Cardinality(DOMAIN cluster_cache')
           /\ call'.op = "get_cache_status"
                => /\ call'.out.val.device_cache.cached_clusters
                        = Cardinality(DOMAIN smart_cache'.clusters)
                   /\ call'.out.val.discovery_cache.cluster_count
                        = Cardinality(DOMAIN smart_cache'.disc_data)]_vars

\* get_cache_status of SmartCacheManager alone is read-only
C27_SmartStatusReadOnly ==
    [][(call'.n # call.n /\ call'.op = "get_cache_status")
        => /\ smart_cache' = smart_cache
           /\ cluster_cache' = cluster_cache
           /\ fast_cache' = fast_cache /\ discovery_cache' = discovery_cache
           /\ call'.out.val = get_cache_status(smart_cache', now')]_vars

(***************************************************************************)
(* C28 as stated: read-your-writes through the cached client.  The find    *)
(* that a client issues once its own cached add or remove has returned     *)
(* successfully does not answer from a listing cached before the write: it *)
(* finds the device added, and answers 404 for the device removed, unless  *)
(* the store has been changed again in between.                            *)
(***************************************************************************)
InStore(id) == \E c \in DOMAIN remote : FirstClientId(remote[c], id) # 0

C28_AsStated ==
    [][\A p \in Procs :
        (/\ st[p].pc = "done" /\ st[p].kind \in ClientWrites /\ st[p].res.ok
         /\ st'[p].kind = "cfind" /\ st'[p].id = st[p].id
         /\ st'[p].pc = "done")
        => (st'[p].res.ok <=> InStore(st[p].id))]_vars

\* what the write itself guarantees: when it returns, the all-clusters
\* entry is not in the cache
C28_InvalidatedAtReturn ==
    [][\A p \in Procs :
        (st[p].pc = "cputback" /\ st'[p].pc = "done")
        => AllClustersKey \notin DOMAIN cluster_cache']_vars

(***************************************************************************)
(* C29 as stated: the find that follows the client's own successful update *)
(* of a device with a 6-field location vector and a status returns the     *)
(* device with the new status, with placement = position 4 of the new      *)
(* vector and with customer = position 0 of it.                            *)
(***************************************************************************)
C29_AsStated ==
    [][\A p \in Procs :
        (/\ st'[p] # st[p] /\ st'[p].pc = "done" /\ st'[p].kind = "cfind"
         /\ st'[p].prev.kind = "cupdate" /\ st'[p].prev.ok
         /\ st'[p].prev.id = st'[p].id
         /\ st'[p].res.ok)
        => LET u == st'[p].prev.dev
               r == st'[p].res.devices[1]
           IN  (HasKey(u, "location") /\ Len(u.location) = 6 /\ HasKey(u, "status"))
                => /\ JsonGet(r, "status") = u.status
                   /\ JsonGet(r, "placement") = At(u.location, 4)
                   /\ JsonGet(r, "customer") = At(u.location, 0)]_vars

(***************************************************************************)
(* C30 as stated: in the document that an update is about to write back,   *)
(* every device but the located one is as fetched, and the located device  *)
(* differs from the fetched one only in the location positions that the    *)
(* update names, in its status and in lastModified.                        *)
(***************************************************************************)
PositionNames == <<"customer", "site", "area", "erp_reference", "placement", "configuration">>
UpdateFrame(base, doc, i, u) ==
    /\ i # 0
    /\ Len(doc) = Len(base)
    /\ \A j \in 1..Len(base) : j # i => doc[j] = base[j]
    /\ \A k \in DOMAIN base[i] \ {"location", "status", "lastModified"} :
            doc[i][k] = base[i][k]
    /\ Len(doc[i].location) = Len(base[i].location)
    /\ \A n \in 1..Len(base[i].location) :
            doc[i].location[n] # base[i].location[n]
                => n <= Len(PositionNames) /\ HasKey(u, PositionNames[n])
    /\ doc[i].status # base[i].status => HasKey(u, "status")

C30_AsStated ==
    \A p \in Procs :
        (st[p].pc = "put" /\ st[p].kind \in {"update", "gupdate"})
        => UpdateFrame(st[p].base, st[p].doc,
                       IF st[p].kind = "update" THEN FirstDeviceId(st[p].base, st[p].id)
                       ELSE FirstRawGuid(st[p].base, st[p].id),
                       st[p].updates)

\* update_device_by_guid of operations.py alone keeps the frame
C30_ManagerUpdateFrame ==
    \A p \in Procs :
        (st[p].pc = "put" /\ st[p].kind = "gupdate")
        => UpdateFrame(st[p].base, st[p].doc, FirstRawGuid(st[p].base, st[p].id),
                       st[p].updates)

(***************************************************************************)
(* C31 as stated: an update whose write-back the remote store accepted     *)
(* returns a success result to its caller, never an error.                 *)
(***************************************************************************)
C31_AsStated ==
    \A p \in Procs :
        (st[p].pc = "done" /\ st[p].kind \in {"update", "gupdate"} /\ st[p].put = "ok")
        => st[p].res.ok

\* update_device_by_guid of operations.py alone reports an accepted write as success
C31_ManagerUpdateReported ==
    \A p \in Procs :
        (st[p].pc = "done" /\ st[p].kind = "gupdate" /\ st[p].put = "ok")
        => st[p].res.ok

(***************************************************************************)
(* C32 as stated: every call of get_microshare_client that returns,        *)
(* returns the instance the module variable is bound to, with its access   *)
(* token set and its session open.                                         *)
(***************************************************************************)
Authenticated(ci, r) ==
    /\ r # 0 /\ r = ci.ref
    /\ ci.heap[r].token
    /\ ci.heap[r].session = "open"

C32_AsStated ==
    [][\A p \in Procs :
        (/\ st'[p] # st[p]
         /\ st'[p].kind = "getclient" /\ st'[p].pc = "done" /\ st'[p].res.ok)
        => Authenticated(client_instance', st'[p].client)]_vars

\* the call that authenticates itself, and any call that starts while no
\* authentication is pending, return an authenticated client
C32_ReturnsAuthenticatedWhenNotOverlapping ==
    [][\A p \in Procs :
        (/\ st'[p] # st[p]
         /\ st'[p].kind = "getclient" /\ st'[p].pc = "done" /\ st'[p].res.ok
         /\ \A q \in Procs \ {p} : st[q].pc \notin {"cauth", "cclose"})
        => Authenticated(client_instance', st'[p].client)]_vars

(***************************************************************************)
(* C33 as stated: a listing that list_all_clusters_cached returns from the *)
(* cache was not fetched before a cached write that has returned.  A       *)
(* listing is what the store held when it was fetched, so while no write   *)
(* is between its PUT and its return, a listing that differs from the      *)
(* store was fetched before a write that has returned.                     *)
(***************************************************************************)
ServedFromCache(p) ==
    /\ st'[p] # st[p]
    /\ st'[p].kind = "cfind" /\ st'[p].pc = "done"
    /\ "cache_hit" \in st'[p].touched

C33_AsStated ==
    [][\A p \in Procs :
        (ServedFromCache(p) /\ \A q \in Procs : st[q].pc # "cputback")
        => cluster_cache[AllClustersKey].data = remote]_vars

(***************************************************************************)
(* C34 as stated: the document a delete writes back is the fetched         *)
(* document with exactly one device taken out; every other device, also    *)
(* one with the same identifier, is still in it.                           *)
(***************************************************************************)
OneRemoved(base, doc) == \E i \in 1..Len(base) : doc = RemoveAt(base, i)

C34_AsStated ==
    \A p \in Procs :
        (st[p].pc \in {"put", "cput"} /\ st[p].kind \in {"delete", "gdelete", "cremove"})
        => OneRemoved(st[p].base, st[p].doc)

\* delete_device_fast and delete_device_by_guid pop the first match only
C34_PopRemovesOne ==
    \A p \in Procs :
        (st[p].pc = "put" /\ st[p].kind \in {"delete", "gdelete"})
        => OneRemoved(st[p].base, st[p].doc)

(***************************************************************************)
(* C35 as stated: when the delete endpoint has reported success, no        *)
(* cluster of the remote store holds a device with the requested           *)
(* identifier (requests are served one after the other here, so no create  *)
(* runs meanwhile).                                                        *)
(***************************************************************************)
HeldRemotely(device_id) ==
    \E c \in DOMAIN remote : FirstDeviceId(remote[c], device_id) # 0

C35_AsStated ==
    \A p \in SeqProcs :
        (st[p].pc = "done" /\ st[p].kind = "delete" /\ st[p].res.ok)
        => ~HeldRemotely(st[p].id)

\* a delete that met no failed call reports success only after the store
\* accepted a document without the device it located, or for an unknown id
C35_FaultFreeDelete ==
    \A p \in SeqProcs :
        (st[p].pc = "done" /\ st[p].kind = "delete" /\ st[p].res.ok /\ nFaults = 0)
        => \/ st[p].put = "ok"
           \/ ~HeldRemotely(st[p].id)

(***************************************************************************)
(* C36 as stated: a cached cluster document that get_cached_cluster_data   *)
(* no longer returns because its age has reached the ttl is still not      *)
(* returned after a surgical add, update or remove.                        *)
(***************************************************************************)
Expired(sc, c, t) == c \in DOMAIN sc.clusters /\ ~get_cached_cluster_data(sc, c, t)

C36_AsStated ==
    [][(call'.n # call.n /\ call'.op \in Surgical)
        => \A c \in ClusterIds :
            Expired(smart_cache, c, now) => ~get_cached_cluster_data(smart_cache', c, now')]_vars

\* only a surgical operation, update_after_operation (which runs one) and
\* cache_cluster_data make an expired document valid again
C36_OnlyWritesRevive ==
    [][(/\ call'.n # call.n
        /\ call'.op \notin Surgical \cup {"update_after_operation", "cache_cluster_data"})
        => \A c \in ClusterIds :
            Expired(smart_cache, c, now) => ~get_cached_cluster_data(smart_cache', c, now')]_vars

(***************************************************************************)
(* C37.  find_device_by_guid, as update_device_by_guid and                 *)
(* delete_device_by_guid call it, ends with "not found" for a guid that a  *)
(* cluster of the store holds only if the guid matches a test pattern, or  *)
(* if the fetch of every cluster that holds it failed.  The guid that      *)
(* create_device generates matches no test pattern.                        *)
(***************************************************************************)
NotFoundNow(p) ==
    /\ st'[p] # st[p]
    /\ st'[p].pc = "done" /\ st'[p].kind \in {"gupdate", "gdelete"}
    /\ st'[p].res.err = "NotFound"
\* the search task of cluster c has settled, or settles in this step, on a failed fetch
FetchFailed(p, c) ==
    /\ st[p].pc = "gather"
    /\ \/ c \in DOMAIN st[p].got /\ ~st[p].got[c].found
       \/ c \in st[p].pend /\ nFaults' # nFaults

C37_HeldGuidFoundUnlessTestPattern ==
    [][/\ \A n \in 1..Len(Uuids) : ~IsTestGuid(NewGuid(n))
       /\ \A p \in SeqProcs :
            NotFoundNow(p)
            => \/ IsTestGuid(st'[p].id)
               \/ \A c \in DOMAIN remote : Holds(c, st'[p].id) => FetchFailed(p, c)]_vars

\* a device that create_device wrote is located by the guid it was given
C37_Witness ==
    \E p \in SeqProcs :
        /\ st[p].pc = "put" /\ st[p].kind = "gupdate"
        /\ st[p].prev.kind = "gcreate" /\ st[p].prev.ok
        /\ st[p].id = st[p].prev.dev.guid
        /\ Holds(st[p].target, st[p].id)

\* C37 as stated: "not found" is never the answer for a guid that a cluster
\* holds, unless the fetch of every cluster that holds it failed
C37_AsStated ==
    [][\A p \in SeqProcs :
        NotFoundNow(p)
        => \A c \in DOMAIN remote : Holds(c, st'[p].id) => FetchFailed(p, c)]_vars

(***************************************************************************)
(* C38 as stated: a handler serves its operation through a cluster mapping *)
(* that was discovered with its own api_base and bearer token.  Each       *)
(* handler serves one request for a session of its own and the caches      *)
(* start empty, so the mapping a handler holds was discovered by a handler *)
(* that has sent a discovery request.                                      *)
(***************************************************************************)
\* the api_base and access_token of the request that handler p serves; the
\* token is written as its first 16 characters and the rest
Session(p) ==
    [api_base |-> "https://dapi.microshare.io",
     access_token |-> <<"eyJhbGciOiJIUzI1", p>>]
\* f"discovery:{api_base}:{access_token[:16]}"
discovery_cache_key(session) == <<"discovery:", session.api_base, session.access_token[1]>>

C38_AsStated ==
    \A p \in Procs :
        st[p].cmap # EmptyMap
        => \E q \in Procs : Session(q) = Session(p) /\ st[q].nDisc > 0

\* the two sessions differ in their token and share the key of discovery_cache
C38_SessionsShareKey ==
    \A p, q \in Procs :
        /\ p # q => Session(p) # Session(q)
        /\ discovery_cache_key(Session(p)) = discovery_cache_key(Session(q))

(***************************************************************************)
(* C39.  In every reachable state of SmartCacheManager the document map    *)
(* and the timestamp map of the device-data cache have the same cluster    *)
(* ids: every cached document has a timestamp and every timestamp belongs  *)
(* to a cached document.                                                   *)
(***************************************************************************)
C39_DocumentsAndTimestampsAgree ==
    DOMAIN smart_cache.clusters = DOMAIN smart_cache.timestamps

\* both documents were stored and a device was added to the one of cT: each
\* of the two cached documents has its timestamp
C39_Witness ==
    /\ call.op = "add_device_to_cache" /\ call.cluster_id = "cT" /\ call.out.ok
    /\ DOMAIN smart_cache.clusters = {"cT", "cG"}
    /\ DOMAIN smart_cache.timestamps = {"cT", "cG"}

(***************************************************************************)
(* C40 as stated: in every reachable state the valid flag that             *)
(* get_cache_status reports for the discovery cache equals                 *)
(* is_discovery_cache_valid(): the mapping is populated and younger than   *)
(* the ttl.                                                                *)
(***************************************************************************)
C40_AsStated ==
    get_cache_status(smart_cache, now).discovery_cache.valid
        = is_discovery_cache_valid(smart_cache, now)

\* the two agree whenever the mapping is populated
C40_AgreeWhenPopulated ==
    smart_cache.disc_data # EmptyMap
    => (get_cache_status(smart_cache, now).discovery_cache.valid
            = is_discovery_cache_valid(smart_cache, now))

====
